---------------------------- MODULE Spec2Model ----------------------------
(***************************************************************************)
(* A model of the Playwright/TypeScript test harness: the reporting        *)
(* adapter (BaseReporter, AllureReporter, TestReporter), the Logger's      *)
(* file sink, the per-test hooks, global setup/teardown and ActionUtils.   *)
(***************************************************************************)
EXTENDS Integers, Sequences, FiniteSets, TLC

VARIABLES
    currentTest,   \* BaseReporter.currentTest of every reporter instance
    discarded,     \* history: records that left a currentTest field, and how
    clock,         \* Date.now()
    nops,          \* number of reporter calls made so far
    allure,        \* calls received by the allure backend (allure-playwright)
    logFile,       \* lines appended to logs/app.log by the winston File transport
    testIdx,       \* number of the test the runner is in (0: none yet)
    harness,       \* which hooks are registered: fixtures.ts or TestBase.beforeEach/afterEach
    configBound,   \* whether the import of `config` from '@config/env' resolved
    pc,            \* the runner's position in the current test
    testStatus,    \* test.info().status
    testError,     \* whether test.info().error is set
    handles,       \* whether page, context and browser are open
    storage,       \* whether cookies, localStorage, sessionStorage hold data
    hookResult,    \* how the last afterEach hook ended
    environ,       \* process.env: the required configuration keys
    setupOutcome,  \* how globalSetup ended
    navTimeout,    \* the timeout BasePage.navigateTo handed to page.goto
    fs,            \* the directories that exist
    logFiles,      \* mtime of every file of logs/
    envName,       \* process.env.environment
    tdPc,          \* position of globalTeardown
    tdOutcome,     \* how the promise of globalTeardown settled
    failed,        \* steps of globalTeardown that failed
    done,          \* steps of globalTeardown that were carried out
    driver,        \* calls the most recent ActionUtils call made on the browser driver
    auCalls,       \* number of ActionUtils calls made so far
    auResult,      \* the most recent ActionUtils call and how it ended
    loggersCreated, \* per process, the number of Logger objects constructed
    loggerInstance, \* per process, the static field Logger.instance (0: unset)
    loggerOf,      \* per component, the Logger it holds (0: none yet)
    logOutcome,    \* the most recent call of a Logger method and how it ended
    poPage,        \* the browser page a page object was constructed with
    poCall,        \* the most recent page-object verb: what it did and how it ended
    utCall,        \* the most recent call of a utility function and what it gave back
    customMatchers, \* whether expect carries the matcher toHaveCountGreaterThan
    scenario,      \* the DuckDuckGo search test: position, page events, outcome
    envInfos,      \* the environmentInfo objects on the heap, by reference
    managers,      \* the configuration object of each AllureConfigManager
    dialogHandlers, \* the 'dialog' listeners registered on the page, oldest first
    dialogs,       \* the dialogs the page has raised, each with the answers it was sent
    tbFields       \* the page, context and browser fields of one TestBase (TRUE: defined)

reporterVars == <<currentTest, discarded, clock, nops>>
runVars == <<testIdx, harness, pc, testStatus, testError, handles, storage, hookResult>>
suVars == <<configBound, environ, setupOutcome, navTimeout>>
tdVars == <<fs, logFiles, envName, tdPc, tdOutcome, failed, done>>
auVars == <<driver, auCalls, auResult>>
lgVars == <<loggersCreated, loggerInstance, loggerOf, logOutcome>>
poVars == <<poPage, poCall, customMatchers>>
scVars == <<scenario>>
cmVars == <<envInfos, managers>>
dlVars == <<dialogHandlers, dialogs>>
tbVars == <<tbFields>>
utVars == <<utCall, scVars, cmVars, dlVars, tbVars>>

vars == <<currentTest, discarded, clock, nops, allure, logFile, testIdx, harness, configBound,
          pc, testStatus, testError, handles, storage, hookResult, environ, setupOutcome,
          navTimeout, fs, logFiles, envName, tdPc, tdOutcome, failed, done, driver, auCalls,
          auResult, loggersCreated, loggerInstance, loggerOf, logOutcome, poPage, poCall,
          utCall, customMatchers, scenario, envInfos, managers, dialogHandlers, dialogs,
          tbFields>>

-----------------------------------------------------------------------------
(* Bounds *)

MaxOps == 3
MaxTests == 1
MaxMissing == 1
MaxCalls == 1
MaxLoggers == 3
MaxVerbs == 2
MaxUtilityCalls == 1

-----------------------------------------------------------------------------
(* Values *)

Undefined == "undefined"

\* currentTest: TestResult | null
Null == [null |-> TRUE]

\* The reporter instances of one process: the fixture's AllureReporter, a
\* TestReporter, and the AllureReporter the TestReporter constructs for itself.
Reporters == {"fixture", "testReporter", "inner"}

ReporterClass(r) == IF r = "testReporter" THEN "TestReporter" ELSE "AllureReporter"

TestIds == {"T1", "T2"}
TestNames == {"search"}
Suites == {"DuckDuckGo"}
Statuses == {"PASSED", "FAILED", "SKIPPED", "BROKEN"}
ErrorArgs == {Undefined, "", "boom"}

-----------------------------------------------------------------------------
(* Configuration: config/env.ts *)

\* JavaScript numbers, as parseInt returns them.
Num(n) == [num |-> n]
NaN == [nan |-> TRUE]
NoValue == [none |-> TRUE]

EnvKeys == {"TEST_ENV", "BASE_URL", "TIMEOUTS_DEFAULT", "TIMEOUTS_SHORT", "TIMEOUTS_LONG",
            "RETRIES", "HEADLESS", "SLOWMO", "VIEWPORT_WIDTH", "VIEWPORT_HEIGHT"}

\* The values spec section 3 lists as the Configuration.
RequiredKeys == {"BASE_URL", "TIMEOUTS_DEFAULT", "TIMEOUTS_SHORT", "TIMEOUTS_LONG",
                 "RETRIES", "HEADLESS", "VIEWPORT_WIDTH", "VIEWPORT_HEIGHT"}

\* What an environment file of the shape of config/env/env.qa.ts provides.
FileValue(key) ==
    CASE key = "TEST_ENV" -> "qa"
      [] key = "BASE_URL" -> "https://qa.example.com"
      [] key = "TIMEOUTS_DEFAULT" -> "30000"
      [] key = "TIMEOUTS_SHORT" -> "10000"
      [] key = "TIMEOUTS_LONG" -> "60000"
      [] key = "RETRIES" -> "0"
      [] key = "HEADLESS" -> "true"
      [] key = "SLOWMO" -> "0"
      [] key = "VIEWPORT_WIDTH" -> "1280"
      [] key = "VIEWPORT_HEIGHT" -> "720"

FullEnvironment == [key \in EnvKeys |-> FileValue(key)]

\* The environments that lack at most MaxMissing keys.
Environments ==
    {[key \in EnvKeys |-> IF key \in missing THEN Undefined ELSE FileValue(key)] :
        missing \in {m \in SUBSET EnvKeys : Cardinality(m) <= MaxMissing}}

MissingKeys == {key \in RequiredKeys : environ[key] = Undefined}

\* export const ENV: every field is process.env.X!, and the assertion is erased.
ENV ==
    [TEST_ENV |-> environ["TEST_ENV"],
     BASE_URL |-> environ["BASE_URL"],
     TIMEOUTS |-> [DEFAULT |-> environ["TIMEOUTS_DEFAULT"],
                   SHORT |-> environ["TIMEOUTS_SHORT"],
                   LONG |-> environ["TIMEOUTS_LONG"]],
     RETRIES |-> environ["RETRIES"],
     HEADLESS |-> environ["HEADLESS"],
     SLOWMO |-> environ["SLOWMO"],
     VIEWPORT |-> [WIDTH |-> environ["VIEWPORT_WIDTH"],
                   HEIGHT |-> environ["VIEWPORT_HEIGHT"]]]

\* parseInt(string): the number a decimal numeral denotes, NaN for anything else
\* (undefined included).
ParseInt(string) ==
    CASE string = "0" -> Num(0)
      [] string = "720" -> Num(720)
      [] string = "1280" -> Num(1280)
      [] string = "10000" -> Num(10000)
      [] string = "30000" -> Num(30000)
      [] string = "60000" -> Num(60000)
      [] OTHER -> NaN

-----------------------------------------------------------------------------
(* Directories *)

\* Variant of the list without the report directory.
SetupDirs_WithoutReport == <<"reports", "reports/screenshots", "reports/allure-results", "logs">>

SetupDirs == <<"reports", "reports/screenshots", "reports/allure-results",
               "reports/allure-report", "logs">>

TempDirectories == <<"test-results", "playwright-report", "allure-results">>

Range(seq) == {seq[i] : i \in 1..Len(seq)}

\* The files of logs/ and their modification times.
LogFileNames == {"app.log", "app1.log"}
Absent == 0 - 1

-----------------------------------------------------------------------------
(* Logger: winston logger at level 'info' with one File transport *)

LevelRank(level) ==
    CASE level = "error" -> 0
      [] level = "warn" -> 1
      [] level = "info" -> 2
      [] level = "debug" -> 5

\* Variant of the level test in which every level is written.
LevelEnabled_All(level) == LevelRank(level) <= LevelRank("debug")

\* A line reaches the file only when its level is at or above the logger's level.
LevelEnabled(level) == LevelRank(level) <= LevelRank("info")

LogLine(file, level, message) ==
    IF LevelEnabled(level)
    THEN Append(file, [level |-> level, message |-> message])
    ELSE file

\* A world is the pair of sinks every reporter call writes to.
World == [allure |-> allure, logFile |-> logFile]

Log(w, level, message) == [w EXCEPT !.logFile = LogLine(@, level, message)]

\* allure-playwright files a call under the test that is running when it is made.
Backend(w, call) == [w EXCEPT !.allure = Append(@, [call |-> call, test |-> testIdx])]


-----------------------------------------------------------------------------
(* Values handed to the report backend *)

\* JSON.stringify(data, null, 2): the text of the data, not the data.
JsonStringify(data) == [json |-> data]

\* new Date().toISOString()
IsoTimestamp(now) == <<"iso", now>>

\* new Error(message)
NewError(message) == [name |-> "Error", message |-> message, stack |-> <<"stack", message>>]

ErrorData(error, now) ==
    [name |-> error.name, message |-> error.message,
     stack |-> error.stack, timestamp |-> IsoTimestamp(now)]

\* fs.readFileSync(screenshotPath)
FileContent(path) == [bytes |-> path]

\* A string handed over as attachment content.
Text(string) == [text |-> string]

Step(name) == [op |-> "step", name |-> name]
Attachment(name, content, type) ==
    [op |-> "attachment", name |-> name, content |-> content, type |-> type]
Label(name, value) == [op |-> "label", name |-> name, value |-> value]
SuiteCall(name) == [op |-> "suite", name |-> name]

-----------------------------------------------------------------------------
(* AllureReporter *)

\* Variant of addStep that logs the step and never reaches allure.step.
Allure_addStep_LogOnly(w, stepName, stepDetails) ==
    Log(w, "info", <<"ALLURE: Adding step", stepName>>)

Allure_addStep(w, stepName, stepDetails) ==
    LET w1 == Log(w, "info", <<"ALLURE: Adding step", stepName>>)
        w2 == Backend(w1, Step(stepName))
    IN  IF stepDetails # Undefined THEN Log(w2, "debug", stepDetails) ELSE w2

Allure_addAttachment(w, name, content, type) ==
    Backend(Log(w, "debug", <<"ALLURE: Adding attachment", name>>),
            Attachment(name, content, type))

Allure_addScreenshot(w, name, screenshotPath, readable) ==
    LET w1 == Log(w, "debug", <<"ALLURE: Adding screenshot", name>>)
    IN  IF readable
        THEN Backend(w1, Attachment(name, FileContent(screenshotPath), "image/png"))
        ELSE Log(w1, "error", <<"Failed to add screenshot", screenshotPath>>)

Allure_addJSONAttachment(w, name, data) ==
    Backend(Log(w, "debug", <<"ALLURE: Adding JSON attachment", name>>),
            Attachment(name, JsonStringify(data), "application/json"))

Allure_addTestSuite(w, suiteName) ==
    Backend(Log(w, "debug", <<"ALLURE: Adding test suite", suiteName>>), SuiteCall(suiteName))

Allure_addTestLabel(w, name, value) ==
    Backend(Log(w, "debug", <<"ALLURE: Adding test label", name>>), Label(name, value))

Allure_addErrorDetails(w, error, now) ==
    Allure_addJSONAttachment(Log(w, "debug", <<"ALLURE: Adding error details", error.message>>),
                             "Error Details", ErrorData(error, now))

-----------------------------------------------------------------------------
(* BaseReporter *)

NewTestResult(testId, testName, suiteName, now) ==
    [testId |-> testId, testName |-> testName, suite |-> suiteName,
     status |-> "PASSED", startTime |-> now, endTime |-> 0, duration |-> 0,
     error |-> Undefined]

\* error || undefined
OrUndefined(error) == IF error = "" THEN Undefined ELSE error

EndedTestResult(t, status, error, now) ==
    [t EXCEPT !.endTime = now, !.duration = now - t.startTime,
              !.status = status, !.error = OrUndefined(error)]

Base_startTest(w, testName) == Log(w, "info", <<"Test started", testName>>)

\* The world after BaseReporter.endTest on a reporter whose current test is t.
Base_endTest(w, t, status) ==
    IF t = Null THEN w ELSE Log(w, "info", <<"Test ended", t.testName, status>>)

Base_addAttachment(w, name, type, filePath) ==
    LET w1 == Log(w, "debug", <<"Attachment added", name, type>>)
    IN  IF filePath # Undefined THEN Log(w1, "debug", <<"File path", filePath>>) ELSE w1

-----------------------------------------------------------------------------
(* TestReporter *)

Test_startTest(w, testId, testName, suiteName) ==
    Allure_addTestLabel(
        Allure_addTestLabel(
            Allure_addTestSuite(Base_startTest(w, testName), suiteName),
            "test-id", testId),
        "test-name", testName)

Test_endTest(w, t, status, error, now) ==
    LET w1 == Base_endTest(w, t, status)
    IN  IF OrUndefined(error) # Undefined
        THEN Allure_addErrorDetails(w1, NewError(error), now)
        ELSE w1

Test_addAttachment(w, name, content, type, filePath) ==
    Allure_addAttachment(Base_addAttachment(w, name, type, filePath), name, content, type)

Test_addScreenshot(w, name, screenshotPath, readable) ==
    Allure_addScreenshot(
        Test_addAttachment(Log(w, "info", <<"REPORTER: Adding screenshot", name>>),
                           name, Text(""), "image/png", screenshotPath),
        name, screenshotPath, readable)

Test_addJSONData(w, name, data) ==
    Test_addAttachment(Log(w, "debug", <<"REPORTER: Adding JSON data", name>>),
                       name, JsonStringify(data), "application/json", Undefined)

\* `Test Data - ${dataType}`
TestDataName(dataType) == IF dataType = "user" THEN "Test Data - user" ELSE "Test Data"

Test_addTestData(w, dataType, data) ==
    Allure_addJSONAttachment(
        Test_addJSONData(Log(w, "debug", <<"REPORTER: Adding test data", dataType>>),
                         TestDataName(dataType), data),
        TestDataName(dataType), data)

Test_addErrorDetails(w, error, now) ==
    Allure_addErrorDetails(
        Test_addJSONData(Log(w, "error", <<"REPORTER: Adding error details", error.message>>),
                         "Error Details", ErrorData(error, now)),
        error, now)

-----------------------------------------------------------------------------
(* Reporter calls as actions *)

Commit(w) == allure' = w.allure /\ logFile' = w.logFile

Tick == nops < MaxOps /\ nops' = nops + 1 /\ clock' = clock + 1 /\ UNCHANGED <<runVars, suVars, tdVars, auVars, poVars, utVars, lgVars>>

StartTest(r) ==
    \E testId \in TestIds, testName \in TestNames, suiteName \in Suites :
        /\ Tick
        /\ currentTest' = [currentTest EXCEPT
                             ![r] = NewTestResult(testId, testName, suiteName, clock)]
        /\ discarded' = IF currentTest[r] = Null THEN discarded
                        ELSE Append(discarded, [record |-> currentTest[r], by |-> "startTest"])
        /\ Commit(IF ReporterClass(r) = "TestReporter"
                  THEN Test_startTest(World, testId, testName, suiteName)
                  ELSE Base_startTest(World, testName))

EndTest(r) ==
    \E status \in Statuses, error \in ErrorArgs :
        /\ Tick
        /\ currentTest' = [currentTest EXCEPT ![r] = Null]
        /\ discarded' = IF currentTest[r] = Null THEN discarded
                        ELSE Append(discarded,
                                    [record |-> EndedTestResult(currentTest[r], status, error, clock),
                                     by |-> "endTest"])
        /\ Commit(IF ReporterClass(r) = "TestReporter"
                  THEN Test_endTest(World, currentTest[r], status, error, clock)
                  ELSE Base_endTest(World, currentTest[r], status))

StepNames == {<<"Click element">>}
StepDetails == {Undefined, "passed"}

AddStep(r) ==
    \E stepName \in StepNames, stepDetails \in StepDetails :
        /\ Tick
        /\ Commit(Allure_addStep(World, stepName, stepDetails))
        /\ UNCHANGED <<currentTest, discarded>>

AttachmentNames == {"artifact"}
Contents == {Text("text")}

AddAttachment(r) ==
    \E name \in AttachmentNames, content \in Contents :
        /\ Tick
        /\ Commit(IF ReporterClass(r) = "TestReporter"
                  THEN Test_addAttachment(World, name, content, "text/plain", Undefined)
                  ELSE Allure_addAttachment(World, name, content, "text/plain"))
        /\ UNCHANGED <<currentTest, discarded>>

ScreenshotPaths == {"reports/screenshots/shot.png"}

AddScreenshot(r) ==
    \E name \in AttachmentNames, path \in ScreenshotPaths, readable \in BOOLEAN :
        /\ Tick
        /\ Commit(IF ReporterClass(r) = "TestReporter"
                  THEN Test_addScreenshot(World, name, path, readable)
                  ELSE Allure_addScreenshot(World, name, path, readable))
        /\ UNCHANGED <<currentTest, discarded>>

JsonData == {[value |-> "data"]}

\* addJSONData exists on TestReporter only.
AddJSONData(r) ==
    \E name \in AttachmentNames, data \in JsonData :
        /\ ReporterClass(r) = "TestReporter"
        /\ Tick
        /\ Commit(Test_addJSONData(World, name, data))
        /\ UNCHANGED <<currentTest, discarded>>

DataTypes == {"user"}

\* addTestData exists on TestReporter only.
AddTestData(r) ==
    \E dataType \in DataTypes, data \in JsonData :
        /\ ReporterClass(r) = "TestReporter"
        /\ Tick
        /\ Commit(Test_addTestData(World, dataType, data))
        /\ UNCHANGED <<currentTest, discarded>>

ErrorMessages == {"boom"}

AddErrorDetails(r) ==
    \E message \in ErrorMessages :
        /\ Tick
        /\ Commit(IF ReporterClass(r) = "TestReporter"
                  THEN Test_addErrorDetails(World, NewError(message), clock)
                  ELSE Allure_addErrorDetails(World, NewError(message), clock))
        /\ UNCHANGED <<currentTest, discarded>>

\* globalSetup has returned in a complete environment.
SetupReturned ==
    /\ configBound = TRUE
    /\ environ = FullEnvironment
    /\ setupOutcome = "returned"
    /\ navTimeout = NoValue

\* globalTeardown has not started; the directories of globalSetup exist.
TeardownIdle ==
    /\ fs = Range(SetupDirs)
    /\ logFiles = [f \in LogFileNames |-> Absent]
    /\ envName = Undefined
    /\ tdPc = "start"
    /\ tdOutcome = "pending"
    /\ failed = {}
    /\ done = {}

\* The loggers of a run whose modules are loaded: in the worker the components
\* that call Logger.getInstance() share instance 1; in the runner global-setup and
\* global-teardown each hold the Logger they constructed.
Processes == {"runner", "worker"}

SharingComponents == {"BaseReporter", "TestBase", "ActionUtils"}
ConstructingComponents == {"fixture", "globalSetup", "globalTeardown"}
Components == SharingComponents \cup ConstructingComponents

ProcessOf(c) == IF c \in {"globalSetup", "globalTeardown"} THEN "runner" ELSE "worker"

NoLogCall == [method |-> "none", message |-> <<>>, writable |-> TRUE, outcome |-> "none"]

LoggerIdle ==
    /\ loggersCreated = [p \in Processes |-> IF p = "worker" THEN 1 ELSE 2]
    /\ loggerInstance = [p \in Processes |-> IF p = "worker" THEN 1 ELSE 0]
    /\ loggerOf = [c \in Components |->
                      CASE c \in SharingComponents -> 1
                        [] c = "globalSetup" -> 1
                        [] c = "globalTeardown" -> 2
                        [] OTHER -> 0]
    /\ logOutcome = NoLogCall

\* A page object just constructed on a fresh page.
NewPage == [opened |-> FALSE, populated |-> FALSE, closed |-> FALSE]

NoVerb == [verb |-> "none", pre |-> NewPage, trace |-> <<>>, outcome |-> "none"]

NoCall == [fn |-> "none"]

\* The search test has not started.
NoScenario ==
    [pc |-> 0, inflight |-> <<>>, emitted |-> <<>>, consoleErrors |-> <<>>,
     pageErrors |-> <<>>, outcome |-> "none"]

\* defaultAllureConfig.environmentInfo as the module defines it.
DefaultEnvironmentInfo ==
    [browser |-> "Chrome", browserVersion |-> "Latest", os |-> "Windows", environment |-> "QA"]

\* No AllureConfigManager exists; the heap holds the default environmentInfo.
ManagersIdle == envInfos = <<DefaultEnvironmentInfo>> /\ managers = <<>>

\* No alert helper has been called and the page has raised no dialog.
DialogsIdle == dialogHandlers = <<>> /\ dialogs = <<>>

\* A TestBase as its constructor leaves it: no page, no context, no browser.
NoHandles == [page |-> FALSE, context |-> FALSE, browser |-> FALSE]

UtilitiesIdle ==
    /\ utCall = NoCall
    /\ scenario = NoScenario
    /\ ManagersIdle
    /\ DialogsIdle
    /\ tbFields = NoHandles

\* fixtures.ts re-exports the expect of @playwright/test, which has no such matcher.
PagesIdle == poPage = NewPage /\ poCall = NoVerb /\ customMatchers = FALSE

ActionsIdle ==
    /\ driver = <<>>
    /\ auCalls = 0
    /\ auResult = [fn |-> "none", outcome |-> "none", error |-> "none", timeout |-> NoValue]

\* The runner before the first test: fresh handles, empty storage.
RunnerIdle ==
    /\ testIdx = 0
    /\ pc = "idle"
    /\ testStatus = "none"
    /\ testError = FALSE
    /\ handles = [page |-> TRUE, context |-> TRUE, browser |-> TRUE]
    /\ storage = [cookies |-> FALSE, localStorage |-> FALSE, sessionStorage |-> FALSE]
    /\ hookResult = "none"

ReporterInit ==
    /\ currentTest = [r \in Reporters |-> Null]
    /\ discarded = <<>>
    /\ clock = 1
    /\ nops = 0
    /\ allure = <<>>
    /\ logFile = <<>>
    /\ RunnerIdle
    /\ harness = "fixtures"
    /\ SetupReturned
    /\ TeardownIdle
    /\ ActionsIdle
    /\ PagesIdle
    /\ UtilitiesIdle
    /\ LoggerIdle

ReporterNext ==
    \E r \in Reporters :
        \/ StartTest(r)
        \/ EndTest(r)
        \/ AddStep(r)
        \/ AddAttachment(r)
        \/ AddScreenshot(r)
        \/ AddJSONData(r)
        \/ AddTestData(r)
        \/ AddErrorDetails(r)

SpecReporter == ReporterInit /\ [][ReporterNext]_vars

-----------------------------------------------------------------------------
(* Reporting adapter: claims *)

HasWarning(file) == \E i \in 1..Len(file) : file[i].level = "warn"

WarningAdded == Len(logFile') > Len(logFile) /\ logFile'[Len(logFile')].level = "warn"

OutsideTestCall(r) ==
    \/ EndTest(r)
    \/ AddStep(r)
    \/ AddAttachment(r)
    \/ AddScreenshot(r)
    \/ AddJSONData(r)
    \/ AddErrorDetails(r)

\* C1: a call of endTest, addStep, addAttachment, addScreenshot, addJSONData or
\* addErrorDetails on a reporter with no open test sends nothing to the report
\* backend, changes no reporter state and logs a warning.
C1_NoOpOutsideOpenTest ==
    [][\A r \in Reporters :
          (currentTest[r] = Null /\ OutsideTestCall(r))
              => (allure' = allure /\ currentTest' = currentTest /\ WarningAdded)]_vars

\* C1 (amended): with no open test, endTest changes no reporter state and writes
\* no log line (an AllureReporter sends nothing; a TestReporter sends at most the
\* Error Details attachment of a non-empty error); addStep, addAttachment,
\* addJSONData and addErrorDetails still reach the report backend; none of the
\* calls changes reporter state and none logs a warning.
C1_OutsideOpenTestForwards ==
    [][\A r \in Reporters :
          currentTest[r] = Null =>
              /\ EndTest(r) =>
                    /\ currentTest' = currentTest
                    /\ discarded' = discarded
                    /\ logFile' = logFile
                    /\ ReporterClass(r) = "AllureReporter" => allure' = allure
                    /\ Len(allure') <= Len(allure) + 1
              /\ (AddStep(r) \/ AddAttachment(r) \/ AddJSONData(r) \/ AddErrorDetails(r)) =>
                    /\ currentTest' = currentTest
                    /\ Len(allure') > Len(allure)
                    /\ ~HasWarning(logFile')
              /\ AddScreenshot(r) =>
                    /\ currentTest' = currentTest
                    /\ ~HasWarning(logFile')]_vars

\* A call reached the backend although no startTest was ever made.
C1_Witness ==
    /\ \A r \in Reporters : currentTest[r] = Null
    /\ discarded = <<>>
    /\ \E i \in 1..Len(allure) : allure[i].call.op = "step"
    /\ \E i \in 1..Len(allure) : allure[i].call.op = "attachment"

\* C2: every Test Record that leaves a reporter's currentTest field was ended by
\* endTest first; none is dropped while still open.
C2_EveryRecordEndedOnce ==
    \A i \in 1..Len(discarded) :
        discarded[i].by = "endTest" /\ discarded[i].record.endTime # 0

OpenReporters == {r \in Reporters : currentTest[r] # Null}

\* C3: at most one Test Record is current across all reporter instances, and
\* every reporter sees the same current test.
C3_SingleCurrentRecord ==
    /\ Cardinality(OpenReporters) <= 1
    /\ \A r1, r2 \in Reporters : currentTest[r1] = currentTest[r2]

-----------------------------------------------------------------------------
(* Per-test hooks: test-setup/fixtures.ts and TestBase.beforeEach/afterEach *)

TestStatuses == {"passed", "failed", "timedOut", "skipped", "interrupted"}
Title == "search"

\* Driver calls of a hook that can reject.
FixtureFaults == {"screenshot", "clearCookies", "evaluate"}
TestBaseBeforeFaults == {"clearCookies", "evaluate"}
TestBaseAfterFaults == {"screenshot", "closePage", "closeContext", "closeBrowser"}

CleanStorage == [cookies |-> FALSE, localStorage |-> FALSE, sessionStorage |-> FALSE]
DirtyStorage == [cookies |-> TRUE, localStorage |-> TRUE, sessionStorage |-> TRUE]
OpenHandles == [page |-> TRUE, context |-> TRUE, browser |-> TRUE]

\* Logger.pass / Logger.fail
Logger_pass(w, message) == Log(w, "info", <<"[PASS]", message>>)
Logger_fail(w, message) == Log(w, "error", <<"[FAIL]", message>>)

\* The state a hook runs on; threw is set by the first call that rejects and
\* every later statement of the hook is skipped.
\* tb holds the page, context and browser fields of the TestBase a hook builds with
\* initializeForTest (TRUE: defined).
Exec == [w |-> World, storage |-> storage, handles |-> handles, threw |-> FALSE,
         tb |-> [page |-> TRUE, context |-> TRUE, browser |-> TRUE]]

Then(x, y) == IF x.threw THEN x ELSE y

Throw(x) == [x EXCEPT !.threw = TRUE]

\* page.screenshot(...): rejects on a closed page
PageScreenshot(x, faults) ==
    IF "screenshot" \in faults \/ ~x.handles.page THEN Throw(x) ELSE x

\* context.clearCookies()
ClearCookies(x, faults) ==
    IF "clearCookies" \in faults \/ ~x.handles.context THEN Throw(x)
    ELSE [x EXCEPT !.storage.cookies = FALSE]

\* page.evaluate(() => { localStorage.clear(); sessionStorage.clear(); })
EvaluateClear(x, faults) ==
    IF "evaluate" \in faults \/ ~x.handles.page THEN Throw(x)
    ELSE [x EXCEPT !.storage.localStorage = FALSE, !.storage.sessionStorage = FALSE]

\* fixtures.ts test.beforeEach
Fixtures_beforeEach(x) ==
    IF ~configBound THEN Throw(x)
    ELSE [x EXCEPT !.w = Allure_addStep(Log(@, "info", <<"Starting test", Title>>),
                                        <<"Test started", Title>>, Undefined)]

\* fixtures.ts test.afterEach
Fixtures_afterEach(x, result, faults) ==
    LET reported ==
            CASE result = "passed" ->
                    [x EXCEPT !.w = Allure_addStep(Logger_pass(@, <<"Test passed", Title>>),
                                                   <<"Test passed", Title>>, Undefined)]
              [] result = "failed" ->
                    LET x1 == [x EXCEPT !.w = Allure_addStep(
                                                  Logger_fail(@, <<"Test failed", Title>>),
                                                  <<"Test failed", Title>>, Undefined)]
                        x2 == PageScreenshot(x1, faults)
                    IN  Then(x2, [x2 EXCEPT !.w = Allure_addAttachment(
                                                      @, "Screenshot - failure",
                                                      Text("reports/screenshots/failure.png"),
                                                      "image/png")])
              [] OTHER -> [x EXCEPT !.w = Log(@, "info", <<"Test", result, Title>>)]
        cookiesCleared == Then(reported, ClearCookies(reported, faults))
    IN  Then(cookiesCleared, EvaluateClear(cookiesCleared, faults))

-----------------------------------------------------------------------------
(* TestBase *)

TB_logPass(x, message) ==
    [x EXCEPT !.w = Allure_addStep(Log(@, "info", <<"PASS:", message>>), message, "passed")]

TB_logFail(x, message) ==
    [x EXCEPT !.w = Allure_addStep(Log(@, "error", <<"FAIL:", message>>), message, "failed")]

TB_takeScreenshot(x, name, faults) ==
    IF ~x.tb.page THEN x
    ELSE LET x1 == PageScreenshot(x, faults)
             x2 == [x1 EXCEPT !.w = Allure_addAttachment(
                                        @, name, Text(<<"reports/screenshots", name>>),
                                        "image/png")]
         IN  Then(x1, TB_logPass(x2, <<"Screenshot taken", name>>))

TB_handleTestFailure(x, error, faults, now) ==
    LET x1 == TB_logFail(x, <<"Test failed", error.message>>)
        x2 == IF x1.tb.page THEN TB_takeScreenshot(x1, "failure-screenshot", faults) ELSE x1
        x3 == [x2 EXCEPT !.w = Allure_addAttachment(
                                   Allure_addErrorDetails(@, error, now),
                                   "Error Stack Trace", Text(error.stack), "text/plain")]
    IN  Then(x2, x3)

TB_clearCookiesAndStorage(x, faults) ==
    IF ~x.tb.context THEN x
    ELSE LET x1 == ClearCookies(x, faults)
             x2 == IF x1.tb.page THEN Then(x1, EvaluateClear(x1, faults)) ELSE x1
         IN  Then(x2, TB_logPass(x2, <<"Cookies and storage cleared">>))

\* Variant of the close helpers that leaves the field of the TestBase set.
TB_close_KeepsField(x, handle, faults, fault, message) ==
    IF ~x.tb[handle] THEN x
    ELSE IF fault \in faults THEN Throw(x)
    ELSE TB_logPass([x EXCEPT !.handles[handle] = FALSE], message)

TB_close(x, handle, faults, fault, message) ==
    IF ~x.tb[handle] THEN x
    ELSE IF fault \in faults THEN Throw(x)
    ELSE TB_logPass([x EXCEPT !.handles[handle] = FALSE, !.tb[handle] = FALSE], message)

TB_closePage(x, faults) == TB_close(x, "page", faults, "closePage", <<"Page closed">>)
TB_closeContext(x, faults) ==
    TB_close(x, "context", faults, "closeContext", <<"Browser context closed">>)
TB_closeBrowser(x, faults) ==
    TB_close(x, "browser", faults, "closeBrowser", <<"Browser closed">>)

TB_teardownAfterTest(x, faults) ==
    LET x0 == TB_logPass(x, <<"TestBase teardown started">>)
        x1 == IF x0.tb.page THEN TB_closePage(x0, faults) ELSE x0
        x2 == Then(x1, IF x1.tb.context THEN TB_closeContext(x1, faults) ELSE x1)
        x3 == Then(x2, IF x2.tb.browser THEN TB_closeBrowser(x2, faults) ELSE x2)
    IN  Then(x3, TB_logPass(x3, <<"TestBase teardown completed">>))

\* The callback of TestBase.beforeEach, which the registered hook wraps.
TB_beforeEach(x, faults) ==
    TB_clearCookiesAndStorage(TB_logPass(x, <<"Starting test", Title>>), faults)

\* The callback of TestBase.afterEach; fn is the caller's own teardown.
TB_afterEach(x, result, hasError, faults, now) ==
    LET x1 == IF result = "failed" /\ hasError
              THEN TB_handleTestFailure(x, NewError("boom"), faults, now)
              ELSE TB_logPass(x, <<"Test passed", Title>>)
    IN  Then(x1, TB_teardownAfterTest(x1, faults))

-----------------------------------------------------------------------------
(* The runner: one test after another (workers: 1) *)

CommitExec(x) ==
    /\ Commit(x.w)
    /\ storage' = x.storage
    /\ handles' = x.handles

RunnerStartTest ==
    /\ pc = "idle"
    /\ testIdx < MaxTests
    /\ testIdx' = testIdx + 1
    /\ pc' = "beforeEach"
    /\ testStatus' = "none"
    /\ testError' = FALSE
    /\ handles' = OpenHandles
    /\ storage' = CleanStorage
    /\ hookResult' = "none"
    /\ setupOutcome = "returned"
    /\ UNCHANGED <<reporterVars, suVars, tdVars, auVars, poVars, utVars, lgVars, allure, logFile, harness>>

\* A beforeEach that throws fails the test and its body is skipped; afterEach still runs.
BeforeEachDone(x) ==
    /\ CommitExec(x)
    /\ pc' = IF x.threw THEN "afterEach" ELSE "body"
    /\ testStatus' = IF x.threw THEN "failed" ELSE testStatus
    /\ testError' = x.threw
    /\ UNCHANGED <<reporterVars, suVars, tdVars, auVars, poVars, utVars, lgVars, testIdx, harness, hookResult>>

FixturesBeforeEach ==
    /\ pc = "beforeEach"
    /\ harness = "fixtures"
    /\ BeforeEachDone(Fixtures_beforeEach(Exec))

TestBaseBeforeEach ==
    /\ pc = "beforeEach"
    /\ harness = "testBase"
    /\ \E faults \in SUBSET TestBaseBeforeFaults :
           BeforeEachDone(TB_beforeEach(Exec, faults))

\* Any test body: it ends with some status, may leave data in the cookies and
\* the page's storage, and may leave the page closed.
TestBody ==
    /\ pc = "body"
    /\ \E result \in TestStatuses, hasError \in BOOLEAN, dirty \in BOOLEAN, pageOpen \in BOOLEAN :
           /\ result \in {"passed", "skipped"} => ~hasError
           /\ testStatus' = result
           /\ testError' = hasError
           /\ storage' = IF dirty THEN DirtyStorage ELSE storage
           /\ handles' = [handles EXCEPT !.page = pageOpen]
    /\ pc' = "afterEach"
    /\ navTimeout' = ParseInt(ENV.TIMEOUTS.DEFAULT)
    /\ UNCHANGED <<reporterVars, tdVars, auVars, poVars, utVars, lgVars, configBound, environ, setupOutcome>>
    /\ UNCHANGED <<allure, logFile, testIdx, harness, hookResult>>

AfterEachDone(x) ==
    /\ CommitExec(x)
    /\ hookResult' = IF x.threw THEN "threw" ELSE "returned"
    /\ pc' = "idle"
    /\ UNCHANGED <<reporterVars, suVars, tdVars, auVars, poVars, utVars, lgVars, testIdx, harness, testStatus, testError>>

FixturesAfterEach ==
    /\ pc = "afterEach"
    /\ harness = "fixtures"
    /\ \E faults \in SUBSET FixtureFaults :
           AfterEachDone(Fixtures_afterEach(Exec, testStatus, faults))

TestBaseAfterEach ==
    /\ pc = "afterEach"
    /\ harness = "testBase"
    /\ \E faults \in SUBSET TestBaseAfterFaults :
           AfterEachDone(TB_afterEach(Exec, testStatus, testError, faults, clock))

RunInit ==
    /\ currentTest = [r \in Reporters |-> Null]
    /\ discarded = <<>>
    /\ clock = 1
    /\ nops = 0
    /\ allure = <<>>
    /\ logFile = <<>>
    /\ RunnerIdle
    /\ harness \in {"fixtures", "testBase"}
    /\ SetupReturned
    /\ TeardownIdle
    /\ ActionsIdle
    /\ PagesIdle
    /\ UtilitiesIdle
    /\ LoggerIdle

RunNext ==
    \/ RunnerStartTest
    \/ FixturesBeforeEach
    \/ TestBaseBeforeEach
    \/ TestBody
    \/ FixturesAfterEach
    \/ TestBaseAfterEach

SpecRun == RunInit /\ [][RunNext]_vars

-----------------------------------------------------------------------------
(* Per-test hooks: claims *)

\* The afterEach hook of the current test has ended.
TeardownOver == pc = "idle" /\ hookResult # "none"

TestEntry == {i \in 1..Len(allure) : allure[i].test = testIdx}

HasScreenshotAttachment ==
    \E i \in TestEntry :
        allure[i].call.op = "attachment" /\ allure[i].call.type = "image/png"

HasErrorAttachment ==
    \E i \in TestEntry :
        /\ allure[i].call.op = "attachment"
        /\ allure[i].call.type = "application/json"
        /\ DOMAIN allure[i].call.content = {"json"}
        /\ DOMAIN allure[i].call.content.json = {"name", "message", "stack", "timestamp"}

\* C4: when the afterEach hook of a failed test has ended, the test's report
\* entry holds a screenshot attachment and a structured error attachment.
C4_FailedTestHasScreenshotAndError ==
    (TeardownOver /\ testStatus = "failed")
        => (HasScreenshotAttachment /\ HasErrorAttachment)

\* C5: when the afterEach hook has ended, whatever the outcome of the test and
\* of the failure capture, the cookies, localStorage and sessionStorage of the
\* context the test left open are empty.
C5_StorageClearedAfterEveryTest ==
    (TeardownOver /\ handles.context) => storage = CleanStorage

\* C6: the afterEach hook always returns normally; an error thrown by one of
\* its steps never reaches the runner.
C6_TeardownErrorsNeverPropagate ==
    TeardownOver => hookResult = "returned"

-----------------------------------------------------------------------------
(* Global setup: test-setup/global-setup *)

\* fs.mkdirSync(dir, { recursive: true }) also creates the parents of dir.
Parents(dir) ==
    IF dir \in {"reports/screenshots", "reports/allure-results", "reports/allure-report"}
    THEN {"reports"}
    ELSE {}

\* The directory loop of setupTestEnvironment, from the i-th directory on;
\* fault is the directory whose mkdirSync throws.
RECURSIVE MakeDirectories(_, _, _)
MakeDirectories(y, i, fault) ==
    IF i > Len(SetupDirs) \/ y.threw THEN y
    ELSE LET dir == SetupDirs[i]
         IN  IF dir \in y.fs THEN MakeDirectories(y, i + 1, fault)
             ELSE IF dir = fault THEN [y EXCEPT !.threw = TRUE]
             ELSE MakeDirectories(
                      [y EXCEPT !.fs = @ \cup {dir} \cup Parents(dir),
                                !.w = Log(@, "info", <<"Created directory", dir>>)],
                      i + 1, fault)

\* config.baseUrl is read from the imported binding `config`.
SetupTestEnvironment(y, fault) ==
    LET y1 == [y EXCEPT !.w = Log(@, "info", <<"Setting up test environment...">>)]
        y2 == IF configBound THEN MakeDirectories(y1, 1, fault) ELSE [y1 EXCEPT !.threw = TRUE]
    IN  IF y2.threw THEN y2
        ELSE [y2 EXCEPT !.w = Log(@, "info", <<"Test environment setup completed">>)]

\* dotenv.config({ path, override: true }): a readable file overrides process.env.
LoadEnvironment(readable) ==
    IF envName # Undefined /\ readable THEN FullEnvironment ELSE environ

GlobalSetup ==
    /\ setupOutcome = "pending"
    /\ \E fault \in Range(SetupDirs) \cup {"none"}, readable \in BOOLEAN :
           LET w0 == Log(World, "info", <<"Starting global setup...">>)
               w1 == IF envName # Undefined
                     THEN Log(w0, "info", <<"Loading environment variables for", envName>>)
                     ELSE Log(w0, "info", <<"No environment specified">>)
               y == SetupTestEnvironment([w |-> w1, fs |-> fs, threw |-> FALSE], fault)
           IN  /\ environ' = LoadEnvironment(readable)
               /\ fs' = y.fs
               /\ setupOutcome' = IF y.threw THEN "threw" ELSE "returned"
               /\ Commit(IF y.threw
                         THEN Log(y.w, "error", <<"Global setup failed:">>)
                         ELSE Log(y.w, "info", <<"Global setup completed successfully">>))
    /\ UNCHANGED <<reporterVars, runVars, auVars, poVars, utVars, lgVars, configBound, navTimeout>>
    /\ UNCHANGED <<logFiles, envName, tdPc, tdOutcome, failed, done>>

\* The directory sets in which every directory has its parent.
SetupStates ==
    {d \cup {"logs"} : d \in {e \in SUBSET (Range(SetupDirs) \ {"logs"}) :
                                  e # {} => "reports" \in e}}

StartupInit ==
    /\ currentTest = [r \in Reporters |-> Null]
    /\ discarded = <<>>
    /\ clock = 1
    /\ nops = 0
    /\ allure = <<>>
    /\ logFile = <<>>
    /\ RunnerIdle
    /\ harness = "fixtures"
    /\ configBound \in BOOLEAN
    /\ environ \in Environments
    /\ setupOutcome = "pending"
    /\ navTimeout = NoValue
    /\ fs \in SetupStates
    /\ logFiles = [f \in LogFileNames |-> Absent]
    /\ envName \in {Undefined, "qa"}
    /\ tdPc = "start"
    /\ tdOutcome = "pending"
    /\ failed = {}
    /\ done = {}
    /\ ActionsIdle
    /\ PagesIdle
    /\ UtilitiesIdle
    /\ LoggerIdle

StartupNext ==
    \/ GlobalSetup
    \/ RunnerStartTest
    \/ FixturesBeforeEach
    \/ TestBody
    \/ FixturesAfterEach

SpecStartup == StartupInit /\ [][StartupNext]_vars

\* A hook or a test body has executed.
TestCodeRan == pc \in {"body", "afterEach"} \/ hookResult # "none"

-----------------------------------------------------------------------------
(* Global teardown: test-setup/global-teardown *)

SevenDaysMs == 7 * 24 * 60 * 60 * 1000

\* Date.now() at the time of the teardown.
TeardownNow == 2 * SevenDaysMs

\* Variant of the limit that takes the seven days in seconds.
SevenDaysAgo_InSeconds(now) == now - 7 * 24 * 60 * 60

SevenDaysAgo(now) == now - SevenDaysMs

\* fs.readdirSync(logsDir) lists the files of logs/ in name order.
LogFileOrder == <<"app.log", "app1.log">>

NoFault == <<"none">>
DotenvFault == <<"dotenv">>
ReportFaults == {<<"exec">>, <<"rmSync", "reports/allure-report">>, <<"renameSync">>}
CleanupFaults ==
    {<<"rmSync", dir>> : dir \in Range(TempDirectories)}
        \cup {<<"readdirSync">>}
        \cup {<<"statSync", f>> : f \in LogFileNames}
        \cup {<<"unlinkSync", f>> : f \in LogFileNames}

\* The state a teardown function works on: sinks, file system, the operations
\* that threw and the operations carried out.
TeardownState ==
    [w |-> World, fs |-> fs, logFiles |-> logFiles, failed |-> failed, done |-> done,
     threw |-> FALSE]

\* One file-system or process operation: it throws when it is the faulty one.
Attempt(z, op, fault, effect) ==
    IF z.threw THEN z
    ELSE IF op = fault THEN [z EXCEPT !.threw = TRUE, !.failed = @ \cup {op}]
    ELSE [effect EXCEPT !.done = @ \cup {op}]

Info(z, message) == IF z.threw THEN z ELSE [z EXCEPT !.w = Log(@, "info", message)]

\* catch (error) { logger.warn(message, error) }
CatchWarn(z, message, fault) ==
    IF z.threw
    THEN [z EXCEPT !.threw = FALSE, !.w = Log(@, "warn", <<message, fault>>)]
    ELSE z

\* Variant of the relocation that copies the report and leaves the original.
MoveReport_Copy(z, fault) ==
    IF z.threw \/ "allure-report" \notin z.fs THEN z
    ELSE LET z1 == IF "reports/allure-report" \in z.fs
                   THEN Attempt(z, <<"rmSync", "reports/allure-report">>, fault,
                                [z EXCEPT !.fs = @ \ {"reports/allure-report"}])
                   ELSE z
             z2 == Attempt(z1, <<"renameSync">>, fault,
                           [z1 EXCEPT !.fs = @ \cup {"reports/allure-report"}])
         IN  Info(z2, <<"Allure report moved to reports directory">>)

\* if (fs.existsSync('allure-report')) { ... }
MoveReport(z, fault) ==
    IF z.threw \/ "allure-report" \notin z.fs THEN z
    ELSE LET z1 == IF "reports/allure-report" \in z.fs
                   THEN Attempt(z, <<"rmSync", "reports/allure-report">>, fault,
                                [z EXCEPT !.fs = @ \ {"reports/allure-report"}])
                   ELSE z
             z2 == Attempt(z1, <<"renameSync">>, fault,
                           [z1 EXCEPT !.fs = (@ \ {"allure-report"})
                                                 \cup {"reports/allure-report"}])
         IN  Info(z2, <<"Allure report moved to reports directory">>)

generateReports(z, fault) ==
    LET z0 == Info(z, <<"Generating test reports...">>)
        z1 == Attempt(z0, <<"exec">>, fault, [z0 EXCEPT !.fs = @ \cup {"allure-report"}])
        z2 == Info(z1, <<"Allure report generated successfully">>)
    IN  CatchWarn(MoveReport(z2, fault), "Failed to generate reports:", fault)

\* for (const dir of tempDirectories), from the i-th directory on.
RECURSIVE RemoveDirectories(_, _, _)
RemoveDirectories(z, i, fault) ==
    IF i > Len(TempDirectories) \/ z.threw THEN z
    ELSE LET dir == TempDirectories[i]
         IN  IF dir \in z.fs
             THEN RemoveDirectories(
                      Info(Attempt(z, <<"rmSync", dir>>, fault, [z EXCEPT !.fs = @ \ {dir}]),
                           <<"Cleaned up directory", dir>>),
                      i + 1, fault)
             ELSE RemoveDirectories(z, i + 1, fault)

\* for (const file of files), from the i-th file on.
RECURSIVE PruneLogs(_, _, _, _, _)
PruneLogs(z, files, i, now, fault) ==
    IF i > Len(files) \/ z.threw THEN z
    ELSE LET file == files[i]
             z1 == Attempt(z, <<"statSync", file>>, fault, z)
         IN  IF ~z1.threw /\ z.logFiles[file] < SevenDaysAgo(now)
             THEN PruneLogs(
                      Info(Attempt(z1, <<"unlinkSync", file>>, fault,
                                   [z1 EXCEPT !.logFiles[file] = Absent]),
                           <<"Deleted old log file", file>>),
                      files, i + 1, now, fault)
             ELSE PruneLogs(z1, files, i + 1, now, fault)

cleanupTempFiles(z, now, fault) ==
    LET z0 == Info(z, <<"Cleaning up temporary files...">>)
        z1 == RemoveDirectories(z0, 1, fault)
        z2 == IF "logs" \in z1.fs
              THEN LET z3 == Attempt(z1, <<"readdirSync">>, fault, z1)
                       files == SelectSeq(LogFileOrder, LAMBDA f : z1.logFiles[f] # Absent)
                   IN  PruneLogs(z3, files, 1, now, fault)
              ELSE z1
        z4 == Info(z2, <<"Temporary files cleanup completed">>)
    IN  CatchWarn(z4, "Failed to cleanup temporary files:", fault)

CommitTeardown(z) ==
    /\ Commit(z.w)
    /\ fs' = z.fs
    /\ logFiles' = z.logFiles
    /\ failed' = z.failed
    /\ done' = z.done

\* globalTeardown up to its first await: dotenv.config reports an unreadable
\* file in its return value, which is dropped.
TeardownStart ==
    /\ tdPc = "start"
    /\ \E readable \in BOOLEAN :
           LET w0 == Log(World, "info", <<"Starting global teardown...">>)
           IN  IF envName # Undefined
               THEN /\ Commit(Log(w0, "info", <<"Using environment variables for", envName>>))
                    /\ environ' = LoadEnvironment(readable)
                    /\ failed' = IF readable THEN failed ELSE failed \cup {DotenvFault}
                    /\ done' = IF readable THEN done \cup {DotenvFault} ELSE done
               ELSE /\ Commit(w0)
                    /\ UNCHANGED <<environ, failed, done>>
    /\ tdPc' = "generateReports"
    /\ UNCHANGED <<reporterVars, runVars, auVars, poVars, utVars, lgVars>>
    /\ UNCHANGED <<configBound, setupOutcome, navTimeout, fs, logFiles, envName, tdOutcome>>

\* await generateReports()
GenerateReports ==
    /\ tdPc = "generateReports"
    /\ \E fault \in ReportFaults \cup {NoFault} :
           CommitTeardown(generateReports(TeardownState, fault))
    /\ tdPc' = "cleanupTempFiles"
    /\ UNCHANGED <<reporterVars, runVars, suVars, auVars, poVars, utVars, lgVars, envName, tdOutcome>>

\* await cleanupTempFiles(), and the rest of globalTeardown: neither awaited
\* function throws, so the catch of globalTeardown is never entered.
CleanupTempFiles ==
    /\ tdPc = "cleanupTempFiles"
    /\ \E fault \in CleanupFaults \cup {NoFault} :
           LET z == cleanupTempFiles(TeardownState, clock, fault)
           IN  CommitTeardown(
                   IF z.threw
                   THEN [z EXCEPT !.w = Log(@, "error", <<"Global teardown failed:", fault>>)]
                   ELSE Info(z, <<"Global teardown completed successfully">>))
    /\ tdPc' = "done"
    /\ tdOutcome' = "resolved"
    /\ UNCHANGED <<reporterVars, runVars, suVars, auVars, poVars, utVars, lgVars, envName>>

\* What globalTeardown can find on disk: the run's artifacts and logs/ with
\* files whose modification times lie around the seven-day limit.
TeardownDirs ==
    {"test-results", "playwright-report", "allure-results", "allure-report",
     "reports/allure-report"}

ModificationTimes ==
    {Absent, SevenDaysAgo(TeardownNow) - 1, SevenDaysAgo(TeardownNow), TeardownNow}

TeardownInit ==
    /\ currentTest = [r \in Reporters |-> Null]
    /\ discarded = <<>>
    /\ clock = TeardownNow
    /\ nops = 0
    /\ allure = <<>>
    /\ logFile = <<>>
    /\ RunnerIdle
    /\ harness = "fixtures"
    /\ SetupReturned
    /\ \E d \in SUBSET TeardownDirs : fs = d \cup {"reports", "logs"}
    /\ logFiles \in [LogFileNames -> ModificationTimes]
    /\ envName \in {Undefined, "qa"}
    /\ tdPc = "start"
    /\ tdOutcome = "pending"
    /\ failed = {}
    /\ done = {}
    /\ ActionsIdle
    /\ PagesIdle
    /\ UtilitiesIdle
    /\ LoggerIdle

TeardownNext ==
    \/ TeardownStart
    \/ GenerateReports
    \/ CleanupTempFiles

SpecTeardown == TeardownInit /\ [][TeardownNext]_vars

TeardownDone == tdPc = "done"

Stale(f) == logFiles[f] # Absent /\ logFiles[f] < SevenDaysAgo(clock)

\* The failures of a single step: report generation, relocating the report,
\* removing one transient directory, stat or unlink of one log file.
StepFaults == (ReportFaults \cup CleanupFaults) \ {<<"readdirSync">>}

\* C7: when exactly one step of globalTeardown has thrown, every other step
\* was carried out: each transient directory other than the one whose removal
\* threw is gone, and each stale log file other than the one whose stat or
\* unlink threw is pruned.
C7_OneFailureLeavesOtherStepsDone ==
    (TeardownDone /\ Cardinality(failed) = 1 /\ failed \subseteq StepFaults) =>
        /\ \A dir \in Range(TempDirectories) :
               dir \in fs => failed = {<<"rmSync", dir>>}
        /\ \A f \in LogFileNames :
               Stale(f) => failed \subseteq {<<"statSync", f>>, <<"unlinkSync", f>>}

\* A warn or error line of the log names the operation that threw.
FailureLogged(op) ==
    \E i \in 1..Len(logFile) :
        /\ logFile[i].level \in {"warn", "error"}
        /\ logFile[i].message[Len(logFile[i].message)] = op

\* C8: the promise of globalTeardown resolves whatever steps fail, and every
\* failure is logged.
C8_TeardownResolvesAndLogsFailures ==
    TeardownDone => (tdOutcome = "resolved" /\ \A op \in failed : FailureLogged(op))

-----------------------------------------------------------------------------
(* ActionUtils: utils/action-utils *)

Elements == {"src", "dst"}

DefaultWaitTimeout == 30000

\* options.timeout: absent, 0, a number of milliseconds, or the NaN that
\* parseInt(ENV.TIMEOUTS.DEFAULT) gives for an unset variable.
Timeouts == {NoValue, Num(0), Num(5), NaN}

\* options.timeout || 30000: undefined and 0 are falsy.
WaitTimeout(options) ==
    IF options.timeout \in {NoValue, Num(0), NaN}
    THEN Num(DefaultWaitTimeout)
    ELSE options.timeout

Options == [page : BOOLEAN, timeout : Timeouts]

\* One call on the driver: op on element el (with target, for dragTo).
DriverCall(op, el, target, timeout, ok) ==
    [op |-> op, el |-> el, target |-> target, timeout |-> timeout, ok |-> ok]

\* The state an ActionUtils call works on.
ActionState == [w |-> World, driver |-> <<>>, threw |-> FALSE, error |-> "none"]

\* A driver call that throws when it does not succeed.
Drive(a, call) ==
    IF a.threw THEN a
    ELSE [a EXCEPT !.driver = Append(@, call),
                   !.threw = ~call.ok,
                   !.error = IF call.ok THEN "none"
                             ELSE IF call.op = "waitFor" THEN "TimeoutError"
                             ELSE "DriverError"]

\* throw new Error('Page is required ...')
PageRequired(a) == [a EXCEPT !.threw = TRUE, !.error = "Error"]

\* Variant of the helper whose wait does not reject when the element stays hidden.
getLocator_WaitNeverRejects(a, input, options, visible) ==
    IF ~options.page THEN PageRequired(a)
    ELSE [a EXCEPT !.driver = Append(@, DriverCall("waitFor", input, "none",
                                                   WaitTimeout(options), input \in visible))]

getLocatorWithStableAndVisibleOptions(a, input, options, visible) ==
    IF ~options.page THEN PageRequired(a)
    ELSE Drive(a, DriverCall("waitFor", input, "none", WaitTimeout(options), input \in visible))

\* The functions that take an element, and the functions that act on the page.
ElementFunctions ==
    {"click", "clickAndNavigate", "clickByJS", "fill", "fillAndEnter", "fillAndTab",
     "fillAndType", "pressSequentially", "clear", "clearByJS", "check", "uncheck",
     "selectByValue", "selectByValues", "selectByText", "selectByIndex", "hover", "focus",
     "dragAndDrop", "doubleClick", "downloadFile", "uploadFiles", "scrollLocatorIntoView",
     "scrollToElement", "getElementTextContent", "getElementInnerHTML",
     "getElementOuterHTML", "getElementValue", "setElementValue", "triggerEvent"}

PageFunctions == {"pressPageKeyboard", "scrollToTopOfScreen", "scrollToBottomOfScreen"}

\* The driver calls a function makes after its helper returned, in order:
\* <<operation, receiver>>, the receiver being the input's locator or the page.
DriverOps(fn) ==
    CASE fn \in {"click", "check", "uncheck", "hover", "focus", "clear"} -> <<<<fn, "input">>>>
      [] fn = "clickAndNavigate" -> <<<<"click", "input">>, <<"waitForLoadState", "page">>>>
      [] fn \in {"clickByJS", "clearByJS", "getElementOuterHTML", "triggerEvent"} ->
             <<<<"evaluate", "input">>>>
      [] fn \in {"fill", "setElementValue"} -> <<<<"fill", "input">>>>
      [] fn \in {"fillAndEnter", "fillAndTab"} -> <<<<"fill", "input">>, <<"press", "input">>>>
      [] fn = "fillAndType" -> <<<<"fill", "input">>, <<"type", "input">>>>
      [] fn = "pressSequentially" -> <<<<"pressSequentially", "input">>>>
      [] fn \in {"selectByValue", "selectByValues", "selectByText", "selectByIndex"} ->
             <<<<"selectOption", "input">>>>
      [] fn = "dragAndDrop" -> <<<<"dragTo", "input">>>>
      [] fn = "doubleClick" -> <<<<"dblclick", "input">>>>
      [] fn = "downloadFile" ->
             <<<<"waitForEvent", "page">>, <<"click", "input">>, <<"saveAs", "page">>>>
      [] fn = "uploadFiles" -> <<<<"setInputFiles", "input">>>>
      [] fn \in {"scrollLocatorIntoView", "scrollToElement"} ->
             <<<<"scrollIntoViewIfNeeded", "input">>>>
      [] fn = "getElementTextContent" -> <<<<"textContent", "input">>>>
      [] fn = "getElementInnerHTML" -> <<<<"innerHTML", "input">>>>
      [] fn = "getElementValue" -> <<<<"inputValue", "input">>>>
      [] fn = "pressPageKeyboard" -> <<<<"keyboard.press", "page">>>>
      [] fn \in {"scrollToTopOfScreen", "scrollToBottomOfScreen"} -> <<<<"evaluate", "page">>>>

\* this.logger.info(...) at the head of a function.
ActionLog(a, fn, input) ==
    CASE fn = "click" -> [a EXCEPT !.w = Log(@, "info", <<"Click", input>>)]
      [] fn = "fill" -> [a EXCEPT !.w = Log(@, "info", <<"Fill", "value">>)]
      [] fn = "check" -> [a EXCEPT !.w = Log(@, "info", <<"Check element">>)]
      [] fn = "selectByValue" -> [a EXCEPT !.w = Log(@, "info", <<"Select", "value">>)]
      [] fn = "hover" -> [a EXCEPT !.w = Log(@, "info", <<"Hover element">>)]
      [] fn = "getElementTextContent" -> [a EXCEPT !.w = Log(@, "info", <<"Get text content">>)]
      [] OTHER -> a

\* this.allureReporter.addStep(...) at the head of a function.
ActionStep(a, fn) ==
    CASE fn = "click" -> [a EXCEPT !.w = Allure_addStep(@, <<"Click element">>, Undefined)]
      [] fn = "fill" -> [a EXCEPT !.w = Allure_addStep(@, <<"Fill input", "value">>, Undefined)]
      [] fn = "selectByValue" ->
             [a EXCEPT !.w = Allure_addStep(@, <<"Select option", "value">>, Undefined)]
      [] OTHER -> a

\* The driver calls of DriverOps(fn) from the i-th on; the failAt-th one throws.
RECURSIVE Perform(_, _, _, _, _, _)
Perform(a, fn, i, input, dest, failAt) ==
    IF i > Len(DriverOps(fn)) \/ a.threw THEN a
    ELSE LET op == DriverOps(fn)[i]
             el == IF op[2] = "input" THEN input ELSE "page"
             target == IF op[1] = "dragTo" THEN dest ELSE "none"
         IN  Perform(Drive(a, DriverCall(op[1], el, target, NoValue, i # failAt)),
                     fn, i + 1, input, dest, failAt)

\* The body of the ActionUtils function fn.
ActionUtils(fn, input, dest, options, visible, failAt) ==
    LET a0 == ActionStep(ActionLog(ActionState, fn, input), fn)
        a1 == IF fn \in ElementFunctions
              THEN getLocatorWithStableAndVisibleOptions(a0, input, options, visible)
              ELSE IF fn = "pressPageKeyboard" /\ ~options.page
              THEN PageRequired(a0)
              ELSE a0
    IN  Perform(a1, fn, 1, input, dest, failAt)

Other(el) == CHOOSE e \in Elements : e # el

\* One call of an ActionUtils function by a test or a page object.
CallAction ==
    /\ auCalls < MaxCalls
    /\ \E fn \in ElementFunctions \cup PageFunctions, input \in Elements,
          options \in Options, visible \in SUBSET Elements :
           \E failAt \in 0..Len(DriverOps(fn)) :
               LET a == ActionUtils(fn, input, Other(input), options, visible, failAt)
               IN  /\ Commit(a.w)
                   /\ driver' = a.driver
                   /\ auResult' = [fn |-> fn,
                                   outcome |-> IF a.threw THEN "threw" ELSE "returned",
                                   error |-> a.error,
                                   timeout |-> options.timeout]
    /\ auCalls' = auCalls + 1
    /\ UNCHANGED <<reporterVars, runVars, suVars, tdVars, lgVars, poVars, utVars>>

ActionsInit ==
    /\ currentTest = [r \in Reporters |-> Null]
    /\ discarded = <<>>
    /\ clock = 1
    /\ nops = 0
    /\ allure = <<>>
    /\ logFile = <<>>
    /\ RunnerIdle
    /\ harness = "fixtures"
    /\ SetupReturned
    /\ TeardownIdle
    /\ ActionsIdle
    /\ PagesIdle
    /\ UtilitiesIdle
    /\ LoggerIdle

ActionsNext == CallAction

SpecActions == ActionsInit /\ [][ActionsNext]_vars

IsWait(call) == call.op = "waitFor"

\* The elements a driver call acts on.
Touched(call) == ({call.el, call.target} \cap Elements)

WaitedFor(el, i) ==
    \E j \in 1..(i - 1) : IsWait(driver[j]) /\ driver[j].el = el /\ driver[j].ok

WaitFailed == \E j \in 1..Len(driver) : IsWait(driver[j]) /\ ~driver[j].ok

\* C10 as stated: every element a driver action acts on was waited for
\* successfully before the action, and a failed wait ends the call with an error
\* and without a driver action.
C10_ActionOnlyAfterVisible ==
    /\ \A i \in 1..Len(driver) :
           ~IsWait(driver[i]) => \A el \in Touched(driver[i]) : WaitedFor(el, i)
    /\ WaitFailed =>
           (auResult.outcome = "threw" /\ \A i \in 1..Len(driver) : IsWait(driver[i]))

\* C10 amended: a driver action on the locator of the function's input element
\* comes only after the wait for that element succeeded; a failed wait ends the
\* call with an error and without a driver action. (The destination of dragTo is
\* excluded: it is handed to the driver without a wait.)
C10_ActionOnInputOnlyAfterVisible ==
    /\ \A i \in 1..Len(driver) :
           (~IsWait(driver[i]) /\ driver[i].el \in Elements) =>
               WaitedFor(driver[i].el, i)
    /\ WaitFailed =>
           (auResult.outcome = "threw" /\ \A i \in 1..Len(driver) : IsWait(driver[i]))

\* A call that waited for its element and then acted on it.
C10_Witness ==
    /\ auResult.outcome = "returned"
    /\ \E i \in 1..Len(driver) : ~IsWait(driver[i]) /\ driver[i].el \in Elements

-----------------------------------------------------------------------------
(* ActionUtils: logging and reporting of an action *)

\* The most recent call reached the driver with something other than a wait.
ActionPerformed == \E i \in 1..Len(driver) : ~IsWait(driver[i])

\* C11: every call of an ActionUtils element function that performs its action writes
\* at least one line to the log and records exactly one step on the report
\* backend.
C11_EveryActionLoggedAndReported ==
    [][(CallAction /\ auResult'.fn \in ElementFunctions /\ ActionPerformed') =>
           /\ Len(logFile') > Len(logFile)
           /\ Len(allure') = Len(allure) + 1
           /\ allure'[Len(allure')].call.op = "step"]_vars

\* C12: when a timeout is supplied to an element function, its visibility
\* wait is issued with exactly that timeout, and a wait that fails ends the call
\* with a timeout error; 30000 is used only when no timeout is supplied.
C12_WaitUsesSuppliedTimeout ==
    \A i \in 1..Len(driver) :
        IsWait(driver[i]) =>
            /\ auResult.timeout # NoValue => driver[i].timeout = auResult.timeout
            /\ auResult.timeout = NoValue => driver[i].timeout = Num(DefaultWaitTimeout)
            /\ ~driver[i].ok => (auResult.outcome = "threw" /\ auResult.error = "TimeoutError")

-----------------------------------------------------------------------------
(* Test lifecycle: what teardown reports *)

\* The report of the current test holds the step "Test passed"; both hooks
\* write their "Test passed" log line together with this step.
ReportedPassed ==
    \E i \in 1..Len(allure) :
        /\ allure[i].test = testIdx
        /\ allure[i].call = Step(<<"Test passed", Title>>)

\* C13: teardown logs and reports "Test passed" only for a test whose final
\* status is passed.
C13_PassedReportedOnlyWhenPassed == ReportedPassed => testStatus = "passed"

-----------------------------------------------------------------------------
(* Logger instances: logger/logger *)

\* new Logger() in process p: the constructor builds a winston logger after
\* ensureLogsDirectory has made logs/.
ConstructLogger(p) ==
    /\ loggersCreated[p] < MaxLoggers
    /\ loggersCreated' = [loggersCreated EXCEPT ![p] = @ + 1]
    /\ fs' = fs \cup {"logs"}

\* const logger = new Logger(): the logger fixture (once per test) and the
\* global-setup and global-teardown modules (once, when loaded).
NewLogger(c) ==
    /\ c \in ConstructingComponents
    /\ c # "fixture" => loggerOf[c] = 0
    /\ ConstructLogger(ProcessOf(c))
    /\ loggerOf' = [loggerOf EXCEPT ![c] = loggersCreated[ProcessOf(c)] + 1]
    /\ UNCHANGED <<loggerInstance, logOutcome>>
    /\ UNCHANGED <<reporterVars, runVars, suVars, auVars, poVars, utVars, allure, logFile>>
    /\ UNCHANGED <<logFiles, envName, tdPc, tdOutcome, failed, done>>

\* Logger.getInstance(), called by component c.
GetInstance(c) ==
    /\ c \in SharingComponents
    /\ IF loggerInstance[ProcessOf(c)] = 0
       THEN /\ ConstructLogger(ProcessOf(c))
            /\ loggerInstance' = [loggerInstance EXCEPT
                                    ![ProcessOf(c)] = loggersCreated[ProcessOf(c)] + 1]
       ELSE UNCHANGED <<loggersCreated, loggerInstance, fs>>
    /\ loggerOf' = [loggerOf EXCEPT ![c] = loggerInstance'[ProcessOf(c)]]
    /\ UNCHANGED logOutcome
    /\ UNCHANGED <<reporterVars, runVars, suVars, auVars, poVars, utVars, allure, logFile>>
    /\ UNCHANGED <<logFiles, envName, tdPc, tdOutcome, failed, done>>

LoggerInit ==
    /\ currentTest = [r \in Reporters |-> Null]
    /\ discarded = <<>>
    /\ clock = 1
    /\ nops = 0
    /\ allure = <<>>
    /\ logFile = <<>>
    /\ RunnerIdle
    /\ harness = "fixtures"
    /\ SetupReturned
    /\ fs \in {Range(SetupDirs), Range(SetupDirs) \ {"logs"}}
    /\ logFiles = [f \in LogFileNames |-> Absent]
    /\ envName = Undefined
    /\ tdPc = "start"
    /\ tdOutcome = "pending"
    /\ failed = {}
    /\ done = {}
    /\ ActionsIdle
    /\ PagesIdle
    /\ UtilitiesIdle
    /\ loggersCreated = [p \in Processes |-> 0]
    /\ loggerInstance = [p \in Processes |-> 0]
    /\ loggerOf = [c \in Components |-> 0]
    /\ logOutcome = NoLogCall

LoggerNext ==
    \/ \E c \in Components : NewLogger(c)
    \/ \E c \in Components : GetInstance(c)

SpecLogger == LoggerInit /\ [][LoggerNext]_vars

\* C14: in every process at most one Logger is ever constructed, and every
\* component that holds a Logger holds the instance of Logger.getInstance().
C14_SingleLoggerPerProcess ==
    /\ \A p \in Processes : loggersCreated[p] <= 1
    /\ \A c \in Components :
           loggerOf[c] # 0 => loggerOf[c] = loggerInstance[ProcessOf(c)]

-----------------------------------------------------------------------------
(* Logger methods: logger/logger *)

Methods == {"debug", "info", "warn", "error", "pass", "fail"}

LogMessages == {<<"Starting test">>}

\* The level and the message a method hands to the winston logger.
WinstonLevel(method) ==
    CASE method = "pass" -> "info"
      [] method = "fail" -> "error"
      [] OTHER -> method

WinstonMessage(method, message) ==
    CASE method = "pass" -> <<"[PASS]", message>>
      [] method = "fail" -> <<"[FAIL]", message>>
      [] OTHER -> message

\* Variant of the method call in which a failed write is thrown to the caller.
LoggerMethod_WriteFailureThrows(w, method, message, writable) ==
    [w |-> w, threw |-> ~writable /\ LevelEnabled(WinstonLevel(method))]

\* this.logger.<level>(message, meta): winston hands the line to the File
\* transport; a write that fails is reported by the stream's 'error' event, the
\* line is lost and nothing is thrown into the calling method.
LoggerMethod(w, method, message, writable) ==
    [w |-> IF writable
           THEN Log(w, WinstonLevel(method), WinstonMessage(method, message))
           ELSE w,
     threw |-> FALSE]

\* One call of a Logger method by a component that holds a Logger.
LoggerCall ==
    /\ nops < MaxOps
    /\ \E c \in Components : loggerOf[c] # 0
    /\ \E method \in Methods, message \in LogMessages, writable \in BOOLEAN :
           LET r == LoggerMethod(World, method, message, writable)
           IN  /\ Commit(r.w)
               /\ logOutcome' = [method |-> method, message |-> message,
                                 writable |-> writable,
                                 outcome |-> IF r.threw THEN "threw" ELSE "returned"]
    /\ nops' = nops + 1
    /\ UNCHANGED <<currentTest, discarded, clock, loggersCreated, loggerInstance, loggerOf>>
    /\ UNCHANGED <<runVars, suVars, tdVars, auVars, poVars, utVars>>

LoggingInit ==
    /\ currentTest = [r \in Reporters |-> Null]
    /\ discarded = <<>>
    /\ clock = 1
    /\ nops = 0
    /\ allure = <<>>
    /\ logFile = <<>>
    /\ RunnerIdle
    /\ harness = "fixtures"
    /\ SetupReturned
    /\ TeardownIdle
    /\ ActionsIdle
    /\ PagesIdle
    /\ UtilitiesIdle
    /\ LoggerIdle

LoggingNext == LoggerCall

SpecLogging == LoggingInit /\ [][LoggingNext]_vars

\* The line a call leaves in the file when it is written.
WrittenLine == [level |-> WinstonLevel(logOutcome'.method),
                message |-> WinstonMessage(logOutcome'.method, logOutcome'.message)]

-----------------------------------------------------------------------------
(* Reporters: error details *)

\* The positions of the backend calls made by the step.
AddedCalls == (Len(allure) + 1)..Len(allure')

ErrorAttachments ==
    {i \in AddedCalls : /\ allure'[i].call.op = "attachment"
                        /\ allure'[i].call.name = "Error Details"}

\* C17: addErrorDetails, on an AllureReporter and on a TestReporter, adds exactly
\* one JSON attachment with the error's name, message, stack and a timestamp, and
\* sets a label for the error on the backend.
C17_ErrorDetailsOneAttachmentAndLabel ==
    [][\A r \in Reporters :
           AddErrorDetails(r) =>
               /\ Cardinality(ErrorAttachments) = 1
               /\ \A i \in ErrorAttachments :
                      /\ allure'[i].call.type = "application/json"
                      /\ DOMAIN allure'[i].call.content.json
                             = {"name", "message", "stack", "timestamp"}
               /\ \E i \in AddedCalls : allure'[i].call.op = "label"]_vars


-----------------------------------------------------------------------------
(* Page objects: BasePage and DuckDuckGoPage *)

\* The statements of a verb, in the order the code runs them.
LogStep(name) == [kind |-> "logStep", name |-> name, element |-> FALSE]
LoggerInfo(name) == [kind |-> "info", name |-> name, element |-> FALSE]
ReporterStep(name) == [kind |-> "addStep", name |-> name, element |-> FALSE]
OnPage(name) == [kind |-> "driver", name |-> name, element |-> FALSE]
OnElement(name) == [kind |-> "driver", name |-> name, element |-> TRUE]
\* expect(value).<name>(...) on a value the test already holds.
ExpectValue(name) == [kind |-> "assert", name |-> name, element |-> FALSE]
\* expect(locator).<name>(...) with a matcher that is not one of Playwright's own.
Matcher(name) == [kind |-> "matcher", name |-> name, element |-> TRUE]

BaseVerbs ==
    {"navigateTo", "reloadPage", "goBack", "goForward", "getPageTitle", "getCurrentUrl",
     "getPageContent", "takeScreenshot", "setViewportSize", "closePage"}

DuckDuckGoVerbs ==
    {"openHome", "assertTitleContainsDuckDuckGo", "assertSearchInputDefaultState",
     "fillSearch", "assertSearchValue", "clearSearch", "submitSearchWithEnter",
     "assertUrlHasQuery", "waitForResults", "firstResultTitleText",
     "firstResultSnippetText", "assertFirstResultMentions", "assertQueryPersistsInInput",
     "clearAndSearch"}

Verbs == BaseVerbs \cup DuckDuckGoVerbs

\* The verbs that act on the search input or on the results.
InteractionVerbs ==
    {"fillSearch", "clearSearch", "submitSearchWithEnter", "clearAndSearch"}

\* ActionUtils.fill and ActionUtils.clear as a page object calls them.
ActionUtils_fill ==
    <<LoggerInfo("Fill"), ReporterStep("Fill input"), OnElement("waitFor"), OnElement("fill")>>
ActionUtils_clear == <<OnElement("waitFor"), OnElement("clear")>>

RECURSIVE Statements(_)
Statements(verb) ==
    CASE verb = "navigateTo" ->
             <<LoggerInfo("Navigate to:"), ReporterStep("Navigate to:"), OnPage("goto")>>
      [] verb = "reloadPage" -> <<LoggerInfo("Reload page"), OnPage("reload")>>
      [] verb = "goBack" -> <<LoggerInfo("Go back"), OnPage("goBack")>>
      [] verb = "goForward" -> <<LoggerInfo("Go forward"), OnPage("goForward")>>
      [] verb = "getPageTitle" -> <<OnPage("title"), LoggerInfo("Page title:")>>
      [] verb = "getCurrentUrl" -> <<OnPage("url"), LoggerInfo("Current URL:")>>
      [] verb = "getPageContent" -> <<OnPage("content"), LoggerInfo("Get page content")>>
      [] verb = "takeScreenshot" ->
             <<LoggerInfo("Take screenshot:"), ReporterStep("Take screenshot:"), OnPage("screenshot"),
               [kind |-> "attach", name |-> "screenshot", element |-> FALSE]>>
      [] verb = "setViewportSize" ->
             <<LoggerInfo("Set viewport:"), OnPage("setViewportSize")>>
      [] verb = "closePage" -> <<LoggerInfo("Close page"), OnPage("close")>>
      [] verb = "openHome" ->
             <<LogStep("Open DuckDuckGo home")>> \o Statements("navigateTo")
                 \o <<OnPage("waitForLoadState")>>
      [] verb = "assertTitleContainsDuckDuckGo" ->
             <<LogStep("Assert page title contains DuckDuckGo"), OnPage("expect.toHaveTitle")>>
      [] verb = "assertSearchInputDefaultState" ->
             <<LogStep("Assert search input is visible, enabled, and empty by default"), OnElement("waitFor"),
               OnElement("expect.toBeEnabled"), OnElement("expect.toHaveValue")>>
      [] verb = "fillSearch" ->
             <<LogStep("Fill search input:")>> \o ActionUtils_fill
                 \o <<OnElement("expect.toHaveValue")>>
      [] verb = "assertSearchValue" ->
             <<LogStep("Assert search input value equals:"), OnElement("expect.toHaveValue")>>
      [] verb = "clearSearch" ->
             <<LogStep("Clear search input")>> \o ActionUtils_clear
                 \o <<OnElement("expect.toHaveValue")>>
      [] verb = "submitSearchWithEnter" ->
             <<LogStep("Submit search with ENTER"), OnElement("waitFor"), OnPage("waitForLoadState"),
               OnElement("press")>>
      [] verb = "assertUrlHasQuery" -> <<LogStep("Assert URL contains query for:"), OnPage("url")>>
      [] verb = "waitForResults" ->
             <<LogStep("Wait for results container and at least one result item"), OnElement("waitFor"), OnElement("waitFor"),
               Matcher("toHaveCountGreaterThan")>>
      [] verb = "firstResultTitleText" ->
             <<LogStep("Read first result title text"), OnElement("waitFor"),
               OnElement("innerText")>>
      [] verb = "firstResultSnippetText" ->
             <<LogStep("Read first result snippet text"), OnElement("waitFor"),
               OnElement("innerText")>>
      [] verb = "assertFirstResultMentions" ->
             <<LogStep("Assert first result mentions term (case-insensitive):")>>
                 \o Statements("firstResultTitleText")
                 \o Statements("firstResultSnippetText")
      [] verb = "assertQueryPersistsInInput" ->
             <<LogStep("Assert query persists in search input:"), OnElement("waitFor"),
               OnElement("expect.toHaveValue")>>
      [] verb = "clearAndSearch" ->
             <<LogStep("Clear search input and search for:")>> \o Statements("clearSearch")
                 \o Statements("fillSearch") \o Statements("submitSearchWithEnter")
                 \o Statements("waitForResults")
                 \o Statements("assertQueryPersistsInInput")

\* What a verb has done so far: the sinks, the page, the events in order.
VerbState(p) == [w |-> World, page |-> p, trace |-> <<>>, threw |-> FALSE]

LogEvent(name) == [kind |-> "log", name |-> name, ok |-> TRUE]
DriverEvent(name, ok) == [kind |-> "driver", name |-> name, ok |-> ok]

\* The driver serves a call on a page that is open in the browser; an element has
\* to be on the page, which a page that was never navigated does not have.
Served(p, statement) == ~p.closed /\ (statement.element => p.opened)

PageAfter(p, name) ==
    CASE name = "goto" -> [p EXCEPT !.opened = TRUE]
      [] name \in {"fill", "clear", "press"} -> [p EXCEPT !.populated = TRUE]
      [] name = "close" -> [p EXCEPT !.closed = TRUE]
      [] OTHER -> p

\* One statement of a verb; a driver call that is not served, or that fails,
\* rejects and ends the verb, and so does the call of a matcher that expect
\* does not have (a TypeError, before any driver call).
Statement(v, statement, fails) ==
    CASE statement.kind = "logStep" ->
             [v EXCEPT !.w = Allure_addStep(Log(@, "info", <<"STEP:", statement.name>>),
                                            <<statement.name>>, Undefined),
                       !.trace = Append(@, LogEvent(statement.name))]
      [] statement.kind = "info" ->
             [v EXCEPT !.w = Log(@, "info", <<statement.name>>),
                       !.trace = Append(@, LogEvent(statement.name))]
      [] statement.kind = "addStep" ->
             [v EXCEPT !.w = Allure_addStep(@, <<statement.name>>, Undefined)]
      [] statement.kind = "attach" ->
             [v EXCEPT !.w = Allure_addAttachment(@, <<statement.name>>,
                                                  FileContent(statement.name), "image/png")]
      [] statement.kind = "assert" -> [v EXCEPT !.threw = fails]
      [] statement.kind = "matcher" /\ ~customMatchers -> [v EXCEPT !.threw = TRUE]
      [] statement.kind \in {"driver", "matcher"} ->
             LET ok == Served(v.page, statement) /\ ~fails
             IN  [v EXCEPT !.trace = Append(@, DriverEvent(statement.name, ok)),
                           !.page = IF ok THEN PageAfter(@, statement.name) ELSE @,
                           !.threw = ~ok]

\* The statements of a verb from the i-th on; the failAt-th one fails.
RECURSIVE Run(_, _, _, _)
Run(v, statements, i, failAt) ==
    IF i > Len(statements) \/ v.threw THEN v
    ELSE Run(Statement(v, statements[i], i = failAt), statements, i + 1, failAt)

\* A test calls one verb of its page object.
CallVerb(verb) ==
    /\ nops < MaxVerbs
    /\ \E failAt \in 0..Len(Statements(verb)) :
           LET v == Run(VerbState(poPage), Statements(verb), 1, failAt)
           IN  /\ Commit(v.w)
               /\ poPage' = v.page
               /\ poCall' = [verb |-> verb, pre |-> poPage, trace |-> v.trace,
                             outcome |-> IF v.threw THEN "threw" ELSE "returned"]
    /\ nops' = nops + 1
    /\ UNCHANGED <<currentTest, discarded, clock, runVars, suVars, tdVars, auVars, lgVars, utVars,
                   customMatchers>>

PagesInit ==
    /\ currentTest = [r \in Reporters |-> Null]
    /\ discarded = <<>>
    /\ clock = 1
    /\ nops = 0
    /\ allure = <<>>
    /\ logFile = <<>>
    /\ RunnerIdle
    /\ harness = "fixtures"
    /\ SetupReturned
    /\ TeardownIdle
    /\ ActionsIdle
    /\ poPage = NewPage
    /\ poCall = NoVerb
    /\ customMatchers \in BOOLEAN
    /\ UtilitiesIdle
    /\ LoggerIdle

PagesNext == \E verb \in Verbs : CallVerb(verb)

SpecPages == PagesInit /\ [][PagesNext]_vars

DriverEvents == {i \in 1..Len(poCall.trace) : poCall.trace[i].kind = "driver"}
LogEvents == {i \in 1..Len(poCall.trace) : poCall.trace[i].kind = "log"}

\* C18: every page-object verb emits its step log before its first call into
\* the driver.
C18_VerbLogsBeforeDriver ==
    \A i \in DriverEvents : \E j \in LogEvents : j < i

\* C19: an interaction verb takes effect only on a page object that has been
\* opened, and once the page is closed no verb reaches the driver.
C19_PageObjectLifecycle ==
    /\ (poCall.verb \in InteractionVerbs /\ poCall.outcome = "returned")
           => (poCall.pre.opened /\ ~poCall.pre.closed)
    /\ poCall.pre.closed => DriverEvents = {}


-----------------------------------------------------------------------------
(* Global teardown: pruning of logs/ *)

\* The files of logs/ before the step.
LogEntries == {f \in LogFileNames : logFiles[f] # Absent}

\* C20: after cleanupTempFiles completes without error, every entry of logs/
\* modified more than 7 days (7*24*60*60*1000 ms) before the current time is
\* deleted and every entry modified within the last 7 days is still present.
C20_OldLogsPrunedRecentKept ==
    [][(CleanupTempFiles /\ failed' \cap CleanupFaults = {}) =>
           \A f \in LogEntries :
               IF clock - logFiles[f] > 7 * 24 * 60 * 60 * 1000
               THEN logFiles'[f] = Absent
               ELSE logFiles'[f] = logFiles[f]]_vars

\* A teardown that pruned one file and kept one modified exactly 7 days ago.
C20_Witness ==
    /\ TeardownDone
    /\ failed \cap CleanupFaults = {}
    /\ <<"unlinkSync", "app.log">> \in done
    /\ logFiles["app.log"] = Absent
    /\ logFiles["app1.log"] = TeardownNow - 7 * 24 * 60 * 60 * 1000


-----------------------------------------------------------------------------
(* Global setup: output directories *)

\* The log of the run says that globalSetup created dir.
CreatedBySetup(dir) ==
    \E i \in 1..Len(logFile) : logFile[i].message = <<"Created directory", dir>>

\* C21: after globalSetup returns successfully the directories reports,
\* reports/screenshots, reports/allure-results, reports/allure-report and logs
\* exist, whatever subset existed before; what existed is left as it was, and a
\* second run of the setup leaves the state of the first.
C21_SetupDirectoriesIdempotent ==
    [][(GlobalSetup /\ setupOutcome' = "returned") =>
           /\ {"reports", "reports/screenshots", "reports/allure-results",
               "reports/allure-report", "logs"} \subseteq fs'
           /\ fs \subseteq fs'
           /\ \A fault \in Range(SetupDirs) \cup {"none"} :
                  LET again == SetupTestEnvironment([w |-> World, fs |-> fs', threw |-> FALSE],
                                                    fault)
                  IN  ~again.threw /\ again.fs = fs']_vars

\* A successful setup that found reports/ and created some of the others.
C21_Witness ==
    /\ setupOutcome = "returned"
    /\ ~CreatedBySetup("reports")
    /\ ~CreatedBySetup("reports/allure-results")
    /\ CreatedBySetup("reports/screenshots")
    /\ CreatedBySetup("reports/allure-report")


-----------------------------------------------------------------------------
(* Utilities: DBUtils.getConfig *)

DbTypes == {"oracle", "mysql", "postgres", "sqlite"}

DbKeys ==
    {"ORACLE_DB_USER", "ORACLE_DB_PASS", "ORACLE_DB_URL", "MYSQL_DB_HOST", "MYSQL_DB_USER",
     "MYSQL_DB_PASS", "MYSQL_DB_NAME", "MYSQL_DB_PORT"}

\* What MYSQL_DB_PORT can hold when it is set.
PortValues == {"", "3307", "abc"}

\* process.env with one variable unset and one variable empty; every other
\* variable holds a text of its own, named after the variable.
DbEnvironment(unset, empty, port) ==
    [k \in DbKeys |-> IF k = unset THEN Undefined
                      ELSE IF k = empty THEN ""
                      ELSE IF k = "MYSQL_DB_PORT" THEN port
                      ELSE k]

\* value || ''
OrEmpty(value) == IF value \in {Undefined, ""} THEN "" ELSE value

\* Number(string) of a non-empty string
ToNumber(string) == IF string = "3307" THEN Num(3307) ELSE NaN

DefaultMySqlPort == 3306

\* The body of getConfig: the sinks, and what the call gives back.
getConfig(w, dbType, env) ==
    LET w1 == Allure_addStep(Log(w, "info", <<"Getting database configuration for", dbType>>),
                             <<"Get database configuration for", dbType>>, Undefined)
    IN  CASE dbType = "oracle" ->
                 [w |-> w1, outcome |-> "returned", error |-> <<>>,
                  config |-> [user |-> OrEmpty(env["ORACLE_DB_USER"]),
                              password |-> OrEmpty(env["ORACLE_DB_PASS"]),
                              connectString |-> OrEmpty(env["ORACLE_DB_URL"])]]
          [] dbType = "mysql" ->
                 [w |-> w1, outcome |-> "returned", error |-> <<>>,
                  config |-> [host |-> OrEmpty(env["MYSQL_DB_HOST"]),
                              user |-> OrEmpty(env["MYSQL_DB_USER"]),
                              password |-> OrEmpty(env["MYSQL_DB_PASS"]),
                              database |-> OrEmpty(env["MYSQL_DB_NAME"]),
                              port |-> IF env["MYSQL_DB_PORT"] \in {Undefined, ""}
                                       THEN Num(DefaultMySqlPort)
                                       ELSE ToNumber(env["MYSQL_DB_PORT"])]]
          [] OTHER ->
                 [w |-> Allure_addStep(Log(w1, "error", <<"Unsupported DB type:", dbType>>),
                                       <<"Error: Unsupported DB type:", dbType>>, Undefined),
                  outcome |-> "threw", error |-> <<"Unsupported DB type:", dbType>>,
                  config |-> <<>>]

GetConfig ==
    /\ nops < MaxUtilityCalls
    /\ \E dbType \in DbTypes, unset \in DbKeys \cup {"none"}, empty \in DbKeys \cup {"none"},
          port \in PortValues :
           LET env == DbEnvironment(unset, empty, port)
               r == getConfig(World, dbType, env)
           IN  /\ Commit(r.w)
               /\ utCall' = [fn |-> "getConfig", dbType |-> dbType, env |-> env,
                             outcome |-> r.outcome, error |-> r.error, config |-> r.config]
    /\ nops' = nops + 1
    /\ UNCHANGED <<currentTest, discarded, clock, runVars, suVars, tdVars, auVars, lgVars,
                   poVars, scVars, cmVars, dlVars, tbVars>>

\* C22: getConfig returns a configuration for each of oracle, mysql and postgres,
\* built from that type's environment variables with missing ones as empty
\* strings and the MySQL port defaulting to 3306, and raises 'Unsupported DB
\* type' only for a type outside these three.
C22_GetConfigSupportsThreeTypes ==
    utCall.fn = "getConfig" =>
        /\ utCall.dbType \in {"oracle", "mysql", "postgres"} <=> utCall.outcome = "returned"
        /\ utCall.outcome = "threw" => utCall.error[1] = "Unsupported DB type:"
        /\ (utCall.outcome = "returned" /\ utCall.dbType = "mysql"
                /\ utCall.env["MYSQL_DB_PORT"] = Undefined)
               => utCall.config.port = Num(3306)
        /\ utCall.outcome = "returned" =>
               \A field \in DOMAIN utCall.config \ {"port"} :
                   \/ utCall.config[field] = ""
                   \/ utCall.config[field] \in DbKeys /\ utCall.env[utCall.config[field]] # ""

-----------------------------------------------------------------------------
(* Utilities: CommonUtils.generateRandomNumber *)

\* The counts a caller passes, and the largest of them.
MaxCount == 3
Counts == (0 - 1)..MaxCount

\* Math.floor(Math.random() * 10), count - 1 times.
RECURSIVE Draws(_)
Draws(n) == IF n <= 0 THEN {<<>>} ELSE {Append(d, x) : d \in Draws(n - 1), x \in {0, 5, 9}}

RECURSIVE Sum(_)
Sum(seq) == IF seq = <<>> THEN 0 ELSE seq[1] + Sum(Tail(seq))

\* Number.prototype.toString(): the decimal digits of a positive integer.
RECURSIVE NumberToString(_)
NumberToString(n) == IF n < 10 THEN <<n>> ELSE Append(NumberToString(n \div 10), n % 10)

\* result is a number, so `result += digit` adds the digit to it.
generateRandomNumber(w, count, first, rest) ==
    LET w1 == Allure_addStep(Log(w, "debug", <<"Generating random number of digits", count>>),
                             <<"Generate random number of digits", count>>, Undefined)
    IN  IF count <= 0
        THEN [w |-> Log(w1, "warn", <<"Count must be greater than 0">>), text |-> <<>>]
        ELSE LET result == first + Sum(rest)
             IN  [w |-> Log(w1, "debug", <<"Generated random number", result>>),
                  text |-> NumberToString(result)]

GenerateRandomNumber ==
    /\ nops < MaxUtilityCalls
    /\ \E count \in Counts, first \in {1, 5, 9} :
           \E rest \in Draws(count - 1) :
               LET r == generateRandomNumber(World, count, first, rest)
               IN  /\ Commit(r.w)
                   /\ utCall' = [fn |-> "generateRandomNumber", count |-> count,
                                 text |-> r.text]
    /\ nops' = nops + 1
    /\ UNCHANGED <<currentTest, discarded, clock, runVars, suVars, tdVars, auVars, lgVars,
                   poVars, scVars, cmVars, dlVars, tbVars>>

UtilitiesInit ==
    /\ currentTest = [r \in Reporters |-> Null]
    /\ discarded = <<>>
    /\ clock = 1
    /\ nops = 0
    /\ allure = <<>>
    /\ logFile = <<>>
    /\ RunnerIdle
    /\ harness = "fixtures"
    /\ SetupReturned
    /\ TeardownIdle
    /\ ActionsIdle
    /\ PagesIdle
    /\ UtilitiesIdle
    /\ LoggerIdle

UtilitiesNext ==
    \/ GetConfig
    \/ GenerateRandomNumber

SpecUtilities == UtilitiesInit /\ [][UtilitiesNext]_vars

\* C23: for count >= 1 generateRandomNumber returns exactly count decimal digits
\* of which the first is not 0, whatever is drawn; for count <= 0 it returns the
\* empty string.
C23_RandomNumberHasCountDigits ==
    utCall.fn = "generateRandomNumber" =>
        IF utCall.count >= 1
        THEN /\ Len(utCall.text) = utCall.count
             /\ \A i \in 1..Len(utCall.text) : utCall.text[i] \in 0..9
             /\ utCall.text[1] # 0
        ELSE utCall.text = <<>>


-----------------------------------------------------------------------------
(* The DuckDuckGo search test: tests/duckduckgo-search.spec.ts *)

MaxEvents == 2

\* What the page can raise: console messages of a type, and uncaught errors.
PageEvents == {<<"console", "error">>, <<"console", "warning">>, <<"pageerror">>}

ScriptStep(stepName, statements) == [step |-> stepName, statements |-> statements]

\* The awaited statements of the test body between the registration of the
\* listeners and the final assertions, each with the step announced before it.
Script ==
    <<ScriptStep(<<"Navigate to DuckDuckGo">>, Statements("openHome")),
      ScriptStep(<<"Verify page title contains DuckDuckGo">>,
                 Statements("assertTitleContainsDuckDuckGo")),
      ScriptStep(<<"Verify search input state">>, Statements("assertSearchInputDefaultState")),
      ScriptStep(<<"Search for 'Selenium' and submit with ENTER">>, Statements("fillSearch")),
      ScriptStep(<<>>, Statements("submitSearchWithEnter")),
      ScriptStep(<<"Verify URL contains query for 'Selenium'">>, Statements("assertUrlHasQuery")),
      ScriptStep(<<"Wait for results">>, Statements("waitForResults")),
      ScriptStep(<<"Assert at least one result is displayed">>,
                 <<Matcher("toHaveCountGreaterThan")>>),
      ScriptStep(<<"Assert first result mentions 'Selenium' and has content">>,
                 Statements("assertFirstResultMentions")),
      ScriptStep(<<"Assert input still equals 'Selenium'">>,
                 Statements("assertQueryPersistsInInput")),
      ScriptStep(<<"Clear input and search for 'Playwright'">>,
                 Statements("firstResultTitleText")),
      ScriptStep(<<>>, Statements("clearAndSearch")),
      ScriptStep(<<"Assert results update for Playwright">>,
                 Statements("firstResultTitleText") \o <<ExpectValue("not.toEqual")>>),
      ScriptStep(<<>>, Statements("firstResultTitleText")),
      ScriptStep(<<>>, Statements("firstResultSnippetText")),
      ScriptStep(<<>>, <<OnElement("allInnerTexts"), ExpectValue("toContain")>>),
      ScriptStep(<<"Final sanity: page responsive and no unexpected errors">>,
                 <<OnElement("expect.toBeEnabled")>>)>>

\* The step that runs only when the first result does not mention the query.
FallbackStep == 16

\* Variant of the listeners without the one for uncaught errors.
Listen_ConsoleOnly(sc, event) ==
    CASE event = <<"console", "error">> -> [sc EXCEPT !.consoleErrors = Append(@, event)]
      [] OTHER -> sc

\* page.on('console', ...) and page.on('pageerror', ...): the listeners keep
\* console messages of type error, and every uncaught error.
Listen(sc, event) ==
    CASE event = <<"console", "error">> -> [sc EXCEPT !.consoleErrors = Append(@, event)]
      [] event = <<"pageerror">> -> [sc EXCEPT !.pageErrors = Append(@, event)]
      [] OTHER -> sc

\* The events in flight reach the listeners, in the order they were raised.
RECURSIVE Deliver(_)
Deliver(sc) ==
    IF sc.inflight = <<>> THEN sc
    ELSE Deliver(Listen([sc EXCEPT !.inflight = Tail(@)], Head(sc.inflight)))

\* Lines 6-19: the page object is built and the listeners are registered.
RegisterListeners ==
    /\ scenario.pc = 0
    /\ scenario' = [scenario EXCEPT !.pc = 1, !.outcome = "running"]
    /\ UNCHANGED <<reporterVars, allure, logFile, runVars, suVars, tdVars, auVars, lgVars,
                   poVars, utCall, cmVars, dlVars, tbVars>>

\* The page raises an event while the test runs.
PageRaises(event) ==
    /\ scenario.outcome = "running"
    /\ Len(scenario.emitted) < MaxEvents
    /\ scenario' = [scenario EXCEPT !.inflight = Append(@, event),
                                    !.emitted = Append(@, event)]
    /\ UNCHANGED <<reporterVars, allure, logFile, runVars, suVars, tdVars, auVars, lgVars,
                   poVars, utCall, cmVars, dlVars, tbVars>>

\* One awaited statement of the test body: the driver hands over the events
\* raised so far before it resolves the call; a rejection ends the test as failed.
ScriptStatement ==
    /\ scenario.outcome = "running"
    /\ scenario.pc \in 1..(Len(Script) - 1)
    /\ LET entry == Script[scenario.pc]
           w0 == IF entry.step = <<>> THEN World
                 ELSE Allure_addStep(World, entry.step, Undefined)
       IN  \E failAt \in 0..Len(entry.statements), skip \in BOOLEAN :
               LET v == Run([VerbState(poPage) EXCEPT !.w = w0], entry.statements, 1, failAt)
                   sc == Deliver(scenario)
               IN  IF skip /\ scenario.pc = FallbackStep
                   THEN /\ scenario' = [sc EXCEPT !.pc = @ + 1]
                        /\ UNCHANGED <<allure, logFile, poPage>>
                   ELSE /\ Commit(v.w)
                        /\ poPage' = v.page
                        /\ scenario' = IF v.threw THEN [sc EXCEPT !.outcome = "failed"]
                                       ELSE [sc EXCEPT !.pc = @ + 1]
    /\ UNCHANGED <<reporterVars, runVars, suVars, tdVars, auVars, lgVars, poCall,
                   customMatchers, utCall, cmVars, dlVars, tbVars>>

\* Lines 70-76: the last awaited check, the two log lines, the two assertions.
FinalAssertions ==
    /\ scenario.outcome = "running"
    /\ scenario.pc = Len(Script)
    /\ \E failAt \in 0..1 :
           LET entry == Script[Len(Script)]
               v == Run([VerbState(poPage) EXCEPT !.w = Allure_addStep(World, entry.step, Undefined)],
                        entry.statements, 1, failAt)
               sc == Deliver(scenario)
               w1 == Log(Log(v.w, "info", <<"Console errors captured:", Len(sc.consoleErrors)>>),
                         "info", <<"Page errors captured:", Len(sc.pageErrors)>>)
           IN  /\ Commit(IF v.threw THEN v.w ELSE w1)
               /\ poPage' = v.page
               /\ scenario' =
                      [sc EXCEPT !.pc = @ + 1,
                                 !.outcome = IF v.threw \/ sc.consoleErrors # <<>>
                                                \/ sc.pageErrors # <<>>
                                             THEN "failed" ELSE "passed"]
    /\ UNCHANGED <<reporterVars, runVars, suVars, tdVars, auVars, lgVars, poCall,
                   customMatchers, utCall, cmVars, dlVars, tbVars>>

ScenarioInit ==
    /\ currentTest = [r \in Reporters |-> Null]
    /\ discarded = <<>>
    /\ clock = 1
    /\ nops = 0
    /\ allure = <<>>
    /\ logFile = <<>>
    /\ RunnerIdle
    /\ harness = "fixtures"
    /\ SetupReturned
    /\ TeardownIdle
    /\ ActionsIdle
    /\ poPage = NewPage
    /\ poCall = NoVerb
    /\ customMatchers \in BOOLEAN
    /\ UtilitiesIdle
    /\ LoggerIdle

ScenarioNext ==
    \/ RegisterListeners
    \/ \E event \in PageEvents : PageRaises(event)
    \/ ScriptStatement
    \/ FinalAssertions

SpecScenario == ScenarioInit /\ [][ScenarioNext]_vars

\* The page raised a console error or an uncaught error before the final
\* assertions were evaluated.
ErrorRaised ==
    \E i \in 1..Len(scenario.emitted) :
        scenario.emitted[i] \in {<<"console", "error">>, <<"pageerror">>}

-----------------------------------------------------------------------------
(* Reporters: the current test of one reporter *)

\* C25: on one reporter, getCurrentTest() is non-null exactly when the most
\* recent of its startTest and endTest calls was a startTest; a record just
\* started has status PASSED and endTime and duration 0; an endTest issued
\* while it is null changes nothing.
C25_CurrentTestFollowsLastCall ==
    [][\A r \in Reporters :
           /\ StartTest(r) =>
                  /\ currentTest'[r] # Null
                  /\ currentTest'[r].testId \in TestIds
                  /\ currentTest'[r].status = "PASSED"
                  /\ currentTest'[r].endTime = 0
                  /\ currentTest'[r].duration = 0
           /\ EndTest(r) => currentTest'[r] = Null
           /\ (~StartTest(r) /\ ~EndTest(r)) => currentTest'[r] = currentTest[r]
           /\ (EndTest(r) /\ currentTest[r] = Null) =>
                  UNCHANGED <<currentTest, allure, logFile>>]_vars


-----------------------------------------------------------------------------
(* Reporters: attachments of TestReporter *)

\* The attachments the step hands to the backend.
AddedAttachments == {i \in AddedCalls : allure'[i].call.op = "attachment"}

\* C26: each call of TestReporter.addAttachment, addJSONData, addScreenshot,
\* addTestData or addErrorDetails delivers exactly one attachment to the
\* backend, with content; none delivers a duplicate or an empty attachment.
C26_OneAttachmentPerCall ==
    [][\A r \in Reporters :
           (/\ ReporterClass(r) = "TestReporter"
            /\ \/ AddAttachment(r)
               \/ AddJSONData(r)
               \/ AddScreenshot(r)
               \/ AddTestData(r)
               \/ AddErrorDetails(r))
               => /\ Cardinality(AddedAttachments) = 1
                  /\ \A i \in AddedAttachments : allure'[i].call.content # Text("")]_vars


-----------------------------------------------------------------------------
(* AllureConfigManager *)

MaxManagers == 2
MaxUpdates == 2

\* defaultAllureConfig: its environmentInfo is the first object of the heap.
defaultAllureConfig ==
    [resultsDir |-> "allure-results", outputDir |-> "allure-report", environmentInfo |-> 1]

\* Partial<AllureConfig> arguments: nothing, a directory, an environmentInfo.
Partials == {"none", "resultsDir", "environmentInfo"}

SuppliedEnvironmentInfo ==
    [browser |-> "Firefox", browserVersion |-> "1", os |-> "Linux", environment |-> "DEV"]

\* { ...base, ...partial }: a new object with the fields of base, overwritten
\* by those of partial; an object-valued field is copied by reference, and ref
\* is the reference of the environmentInfo the caller supplied.
Spread(base, partial, ref) ==
    CASE partial = "none" -> base
      [] partial = "resultsDir" -> [base EXCEPT !.resultsDir = "custom-results"]
      [] partial = "environmentInfo" -> [base EXCEPT !.environmentInfo = ref]

\* What the caller's argument adds to the heap.
HeapWith(partial) ==
    IF partial = "environmentInfo" THEN Append(envInfos, SuppliedEnvironmentInfo) ELSE envInfos

\* new AllureConfigManager(config)
NewManager ==
    /\ Len(managers) < MaxManagers
    /\ \E partial \in Partials :
           /\ envInfos' = HeapWith(partial)
           /\ managers' = Append(managers,
                                 Spread(defaultAllureConfig, partial, Len(envInfos) + 1))
    /\ UNCHANGED <<reporterVars, allure, logFile, runVars, suVars, tdVars, auVars, lgVars,
                   poVars, utCall, scVars, dlVars, tbVars>>

ManagerFrame ==
    /\ nops < MaxUpdates
    /\ nops' = nops + 1
    /\ UNCHANGED <<currentTest, discarded, clock, allure, logFile, runVars, suVars, tdVars,
                   auVars, lgVars, poVars, utCall, scVars, dlVars, tbVars>>

UpdateConfig(m) ==
    /\ ManagerFrame
    /\ \E partial \in Partials :
           /\ envInfos' = HeapWith(partial)
           /\ managers' = [managers EXCEPT ![m] = Spread(@, partial, Len(envInfos) + 1)]

\* this.config.environmentInfo.<field> = value
SetInfo(m, field, value) ==
    /\ envInfos' = [envInfos EXCEPT ![managers[m].environmentInfo][field] = value]
    /\ UNCHANGED managers

SetBrowserInfo(m) ==
    /\ ManagerFrame
    /\ envInfos' = [envInfos EXCEPT ![managers[m].environmentInfo] =
                        [@ EXCEPT !.browser = "Safari", !.browserVersion = "17"]]
    /\ UNCHANGED managers

SetOSInfo(m) == ManagerFrame /\ SetInfo(m, "os", "macOS")

SetEnvironment(m) == ManagerFrame /\ SetInfo(m, "environment", "PROD")

ManagersInit ==
    /\ currentTest = [r \in Reporters |-> Null]
    /\ discarded = <<>>
    /\ clock = 1
    /\ nops = 0
    /\ allure = <<>>
    /\ logFile = <<>>
    /\ RunnerIdle
    /\ harness = "fixtures"
    /\ SetupReturned
    /\ TeardownIdle
    /\ ActionsIdle
    /\ PagesIdle
    /\ UtilitiesIdle
    /\ LoggerIdle

ManagersNext ==
    \/ NewManager
    \/ \E m \in 1..Len(managers) :
           \/ UpdateConfig(m)
           \/ SetBrowserInfo(m)
           \/ SetOSInfo(m)
           \/ SetEnvironment(m)

SpecManagers == ManagersInit /\ [][ManagersNext]_vars

\* What a reader of a configuration sees: the fields, with the environmentInfo
\* the reference leads to.
Seen(config, heap) == [config EXCEPT !.environmentInfo = heap[@]]

\* C27: setBrowserInfo, setOSInfo, setEnvironment and updateConfig on one
\* manager change that manager's configuration only; defaultAllureConfig and the
\* configuration of every other manager stay as they were, and a manager
\* created without overrides starts from the defaults.
C27_ManagersAreIndependent ==
    [][/\ \A m \in 1..Len(managers) :
              (UpdateConfig(m) \/ SetBrowserInfo(m) \/ SetOSInfo(m) \/ SetEnvironment(m)) =>
                  /\ Seen(defaultAllureConfig, envInfos') = Seen(defaultAllureConfig, envInfos)
                  /\ \A k \in 1..Len(managers) :
                         k # m => Seen(managers'[k], envInfos') = Seen(managers[k], envInfos)
       /\ (NewManager /\ managers'[Len(managers')] = defaultAllureConfig) =>
              Seen(managers'[Len(managers')], envInfos')
                  = [defaultAllureConfig EXCEPT !.environmentInfo = DefaultEnvironmentInfo]]_vars


-----------------------------------------------------------------------------
(* ActionUtils: alerts and dialogs *)

MaxHandlers == 3
MaxDialogs == 2

AlertFunctions == {"acceptAlert", "dismissAlert", "getAlertText"}

\* What the listener a function registers does with a dialog.
HandlerAnswer(fn) == IF fn = "dismissAlert" THEN "dismiss" ELSE "accept"

\* acceptAlert, dismissAlert, getAlertText: without options.page the function
\* throws; with it, page.on('dialog', ...) adds a listener to those registered.
AlertCall(fn) ==
    /\ Len(dialogHandlers) < MaxHandlers
    /\ \E options \in Options :
           /\ dialogHandlers' = IF options.page THEN Append(dialogHandlers, fn)
                                ELSE dialogHandlers
           /\ utCall' = [fn |-> fn, outcome |-> IF options.page THEN "registered" ELSE "threw"]
    /\ UNCHANGED <<reporterVars, allure, logFile, runVars, suVars, tdVars, auVars, lgVars,
                   poVars, scVars, cmVars, dialogs, tbVars>>

\* The page raises a dialog: every registered listener runs, oldest first, and
\* sends its answer; the driver takes the first answer and rejects the others.
PageDialog ==
    /\ Len(dialogs) < MaxDialogs
    /\ dialogs' = Append(dialogs,
                         [answers |-> [i \in 1..Len(dialogHandlers) |->
                                           HandlerAnswer(dialogHandlers[i])],
                          handlers |-> dialogHandlers])
    /\ UNCHANGED <<reporterVars, allure, logFile, runVars, suVars, tdVars, auVars, lgVars,
                   poVars, utCall, scVars, cmVars, dialogHandlers,
                   tbVars>>

DialogsInit ==
    /\ currentTest = [r \in Reporters |-> Null]
    /\ discarded = <<>>
    /\ clock = 1
    /\ nops = 0
    /\ allure = <<>>
    /\ logFile = <<>>
    /\ RunnerIdle
    /\ harness = "fixtures"
    /\ SetupReturned
    /\ TeardownIdle
    /\ ActionsIdle
    /\ PagesIdle
    /\ UtilitiesIdle
    /\ LoggerIdle

DialogsNext ==
    \/ \E fn \in AlertFunctions : AlertCall(fn)
    \/ PageDialog

SpecDialogs == DialogsInit /\ [][DialogsNext]_vars

\* C28: after any sequence of acceptAlert, dismissAlert and getAlertText calls
\* on a page, each dialog the page raises is answered exactly once, accepted or
\* dismissed and never both, as the most recent of the calls says.
C28_DialogAnsweredOnceByLastCall ==
    \A d \in 1..Len(dialogs) :
        dialogs[d].handlers # <<>> =>
            /\ Len(dialogs[d].answers) = 1
            /\ dialogs[d].answers[1]
                   = HandlerAnswer(dialogs[d].handlers[Len(dialogs[d].handlers)])


-----------------------------------------------------------------------------
(* TestBase: closing page, context and browser *)

MaxTeardownCalls == 3

CloseFaults == {"closePage", "closeContext", "closeBrowser"}

\* A call on a TestBase that lives across calls: the hook state with its fields.
OnTestBase == [Exec EXCEPT !.tb = tbFields]

TestBaseCall(fn, x) ==
    /\ nops < MaxTeardownCalls
    /\ nops' = nops + 1
    /\ CommitExec(x)
    /\ tbFields' = x.tb
    /\ utCall' = [fn |-> fn, outcome |-> IF x.threw THEN "threw" ELSE "returned"]
    /\ UNCHANGED <<currentTest, discarded, clock, testIdx, harness, pc, testStatus, testError,
                   hookResult, suVars, tdVars, auVars, lgVars, poVars, scVars, cmVars, dlVars>>

\* initializeForTest(page, context, browser): each argument that is given is kept.
InitializeForTest ==
    /\ tbFields = NoHandles
    /\ \E given \in [{"page", "context", "browser"} -> BOOLEAN] :
           TestBaseCall("initializeForTest", [OnTestBase EXCEPT !.tb = given])

TeardownAfterTest ==
    \E faults \in SUBSET CloseFaults :
        TestBaseCall("teardownAfterTest", TB_teardownAfterTest(OnTestBase, faults))

ClosePage ==
    \E faults \in SUBSET {"closePage"} :
        TestBaseCall("closePage", TB_closePage(OnTestBase, faults))

CloseContext ==
    \E faults \in SUBSET {"closeContext"} :
        TestBaseCall("closeContext", TB_closeContext(OnTestBase, faults))

CloseBrowser ==
    \E faults \in SUBSET {"closeBrowser"} :
        TestBaseCall("closeBrowser", TB_closeBrowser(OnTestBase, faults))

TestBaseInit ==
    /\ currentTest = [r \in Reporters |-> Null]
    /\ discarded = <<>>
    /\ clock = 1
    /\ nops = 0
    /\ allure = <<>>
    /\ logFile = <<>>
    /\ RunnerIdle
    /\ harness = "testBase"
    /\ SetupReturned
    /\ TeardownIdle
    /\ ActionsIdle
    /\ PagesIdle
    /\ UtilitiesIdle
    /\ LoggerIdle

TestBaseNext ==
    \/ InitializeForTest
    \/ TeardownAfterTest
    \/ ClosePage
    \/ CloseContext
    \/ CloseBrowser

SpecTestBase == TestBaseInit /\ [][TestBaseNext]_vars

CloseOrder == <<"page", "context", "browser">>

CloseMessage(handle) ==
    CASE handle = "page" -> <<"PASS:", <<"Page closed">>>>
      [] handle = "context" -> <<"PASS:", <<"Browser context closed">>>>
      [] handle = "browser" -> <<"PASS:", <<"Browser closed">>>>

\* The handles the step closed, in the order it closed them.
ClosedByStep ==
    LET added == SubSeq(logFile', Len(logFile) + 1, Len(logFile'))
        closes == SelectSeq(added, LAMBDA l : \E h \in Range(CloseOrder) :
                                                  l.message = CloseMessage(h))
    IN  [i \in 1..Len(closes) |->
             CHOOSE h \in Range(CloseOrder) : closes[i].message = CloseMessage(h)]

\* C29: teardownAfterTest closes the page, then the context, then the browser,
\* each at most once; after it returns the three fields are undefined; a second
\* teardownAfterTest, or closePage, closeContext, closeBrowser, closes nothing.
C29_TeardownClosesInOrderOnce ==
    [][/\ (TeardownAfterTest /\ utCall'.fn = "teardownAfterTest") =>
              /\ \E n \in 0..Len(SelectSeq(CloseOrder, LAMBDA h : tbFields[h])) :
                     ClosedByStep = SubSeq(SelectSeq(CloseOrder, LAMBDA h : tbFields[h]), 1, n)
              /\ utCall'.outcome = "returned" =>
                     /\ tbFields' = NoHandles
                     /\ ClosedByStep = SelectSeq(CloseOrder, LAMBDA h : tbFields[h])
       /\ ((TeardownAfterTest \/ ClosePage \/ CloseContext \/ CloseBrowser)
               /\ tbFields = NoHandles) =>
              (ClosedByStep = <<>> /\ handles' = handles)]_vars

CompletedTeardowns ==
    {i \in 1..Len(logFile) : logFile[i].message = <<"PASS:", <<"TestBase teardown completed">>>>}

\* Two teardowns have returned on a TestBase that held all three handles, and
\* the page was closed once.
C29_Witness ==
    /\ Cardinality(CompletedTeardowns) = 2
    /\ Cardinality({i \in 1..Len(logFile) : logFile[i].message = CloseMessage("page")}) = 1
    /\ Cardinality({i \in 1..Len(logFile) : logFile[i].message = CloseMessage("browser")}) = 1
    /\ tbFields = NoHandles


-----------------------------------------------------------------------------
(* Global teardown: report before cleanup *)

=============================================================================
